---- MODULE Spec2Model ----
(***************************************************************************)
(* The `| stats` pipe of LogsQL: per-worker shards aggregate blocks into   *)
(* groups keyed by the marshalled by-field values, a global atomic budget  *)
(* bounds the size of the state, and flush() merges the shards into        *)
(* shard 0 and writes the groups to the next pipe (ppBase).                *)
(*                                                                         *)
(* Strings are TLA+ strings.  BigValue stands for one string of BigLen     *)
(* bytes; StrLen gives the byte length of a string.  A byte buffer (a      *)
(* group key) is a sequence of chunks: a varint chunk holding a number or  *)
(* a data chunk holding the bytes of one string.  A JSON object is kept as *)
(* the list of fields it renders.  Integers are unbounded: the int64       *)
(* budget cannot wrap within 2^43 borrow attempts.                         *)
(***************************************************************************)
EXTENDS Integers, Sequences, FiniteSets, TLC

VARIABLES
    workersCount,     \* len(psp.shards)
    ps,               \* psp.ps: the parsed pipeStats
    maxStateSize,     \* psp.maxStateSize
    stateSizeBudget,  \* psp.stateSizeBudget (atomic.Int64)
    shards,           \* psp.shards: [m, stateSizeBudget] per worker
    pc,               \* per worker: "idle", or "borrow" inside writeBlock's loop
    pending,          \* per worker: the block and const flag of the running writeBlock
    writes,           \* number of writeBlock calls started
    dropped,          \* number of writeBlock calls that returned from the borrow loop
    cancelCalls,      \* number of psp.cancel() invocations
    stopClosed,       \* whether psp.stopCh is closed
    flushState,       \* "none" before flush(); then "error", "ok", "stopped" or "panic"
    out,              \* the blocks passed to psp.ppBase.writeBlock, in order
    single,           \* the map of one shard that is given every aggregated block
    seen,             \* how many times each row was aggregated
    shardBefore,      \* ShardSpec: the shard as the last shard.writeBlock call found it
    shardBlock,       \* ShardSpec: br and c.isConst of that call, and shard.brs after it
    lex,              \* ParseSpec: the tokens the lexer has not consumed yet
    parsed            \* ParseSpec: what parsePipeStats returned

vars == <<workersCount, ps, maxStateSize, stateSizeBudget, shards, pc, pending,
          writes, dropped, cancelCalls, stopClosed, flushState, out, single, seen,
         shardBefore, shardBlock, lex, parsed>>

\* what the specifications of single functions leave alone in Spec
auxVars == <<shardBefore, shardBlock, lex, parsed>>

-----------------------------------------------------------------------------
(* Bounds of the model *)

MaxWorkers == 2
MaxRows == 1
MaxWrites == 4
BigLen == 2097152
MaxShardRows == 3
MaxShardWrites == 2

(* Program constants *)

stateSizeBudgetChunk == 1048576
flushBlockBytes == 1000000
sizeofString == 16
sizeofPointer == 8
sizeofInterface == 16
sizeofStatsCountProcessor == 16
sizeofStatsRowAnyProcessor == 40

-----------------------------------------------------------------------------
(* Strings, fields and JSON *)

BigValue == "BIG"

StrLen(s) == IF s = BigValue THEN BigLen ELSE Len(s)

RECURSIVE SumSeq(_)
SumSeq(s) == IF Len(s) = 0 THEN 0 ELSE Head(s) + SumSeq(Tail(s))

SeqToSet(s) == {s[i] : i \in 1..Len(s)}

\* MarshalFieldsToJSON: {"name":"value",...}; only its length is needed
JSONLen(fields) ==
    2 + SumSeq([i \in 1..Len(fields) |->
                   StrLen(fields[i].Name) + StrLen(fields[i].Value) + 5])
      + (IF Len(fields) > 1 THEN Len(fields) - 1 ELSE 0)

-----------------------------------------------------------------------------
(* blockResult: a sequence of rows, each row a function from the names of   *)
(* the block's columns to values                                            *)

ColumnOrder == <<"level", "status">>

Row(level, status) == [level |-> level, status |-> status]

RowsLen(br) == Len(br)

\* br.getColumns(): the names of the columns, in block order
getColumns(br) ==
    IF Len(br) = 0 THEN <<>>
    ELSE SelectSeq(ColumnOrder, LAMBDA c : c \in DOMAIN br[1])

\* br.getColumnByName(name).getValueAtRow(br, rowIdx): a missing column reads
\* as a const column holding ""
getValueAtRow(br, name, rowIdx) ==
    IF Len(br) > 0 /\ name \in DOMAIN br[1] THEN br[rowIdx][name] ELSE ""

\* c.getValuesBucketed(br, bf) for a by-field without bucket config
getValuesBucketed(br, bf) ==
    [i \in 1..Len(br) |-> getValueAtRow(br, bf.name, i)]

\* a test that compares the first value with the last one only
areConstValuesEnds(values) ==
    /\ Len(values) # 0
    /\ values[1] = values[Len(values)]

areConstValues(values) ==
    /\ Len(values) # 0
    /\ \A i \in 2..Len(values) : values[1] = values[i]

\* filter.applyToBlockResult: the bits that stay set, for a filter field:phrase
applyToBlockResult(iff, br) ==
    [i \in 1..Len(br) |-> getValueAtRow(br, iff.field, i) = iff.phrase]

\* brDst.initFromFilterNeededColumns(brSrc, bm, neededFields)
initFromFilterNeededColumns(brSrc, bm, neededFields) ==
    LET idx == SelectSeq([i \in 1..Len(brSrc) |-> i], LAMBDA i : bm[i])
        cols == SeqToSet(neededFields)
    IN  [j \in 1..Len(idx) |->
            [c \in cols \cap DOMAIN brSrc[idx[j]] |-> brSrc[idx[j]][c]]]

-----------------------------------------------------------------------------
(* Byte buffers of group keys *)

VarintChunk(n) == [varint |-> TRUE, n |-> n, s |-> ""]
DataChunk(s) == [varint |-> FALSE, n |-> 0, s |-> s]

VarUint64Size(n) ==
    IF n < 128 THEN 1 ELSE IF n < 16384 THEN 2 ELSE IF n < 2097152 THEN 3 ELSE 4

\* len(key)
BytesLen(buf) ==
    SumSeq([i \in 1..Len(buf) |->
               IF buf[i].varint THEN VarUint64Size(buf[i].n) ELSE StrLen(buf[i].s)])

\* encoding.MarshalBytes(dst, b): varint length, then the bytes
MarshalBytes(dst, b) ==
    IF StrLen(b) = 0 THEN Append(dst, VarintChunk(0))
    ELSE dst \o <<VarintChunk(StrLen(b)), DataChunk(b)>>

\* encoding.UnmarshalBytes(src): the value and the number of chunks read,
\* nSize <= 0 when src does not start with a marshalled value
UnmarshalBytes(src) ==
    IF Len(src) = 0 \/ ~src[1].varint THEN [v |-> "", nSize |-> 0]
    ELSE IF src[1].n = 0 THEN [v |-> "", nSize |-> 1]
    ELSE IF Len(src) < 2 \/ src[2].varint \/ StrLen(src[2].s) # src[1].n
         THEN [v |-> "", nSize |-> -1]
    ELSE [v |-> src[2].s, nSize |-> 2]

-----------------------------------------------------------------------------
(* pipeStats: the plan *)

NoFilter == [set |-> FALSE, field |-> "", phrase |-> ""]
PhraseFilter(field, phrase) == [set |-> TRUE, field |-> field, phrase |-> phrase]

statsCount == [name |-> "count", fields |-> <<"*">>]
statsRowAny(fields) ==
    [name |-> "row_any",
     fields |-> IF "*" \in SeqToSet(fields) THEN <<>> ELSE fields]

\* iff.updateNeededFields(neededFields); neededFields.getAll()
FilterNeededFields(iff) == <<iff.field>>

\* one round of the loop of parsePipeStats: f, the optional if (...), the name
parsePipeStatsFunc(sf, iff, resultName) ==
    [f |-> sf,
     neededFieldsForFunc |-> IF iff.set THEN FilterNeededFields(iff) ELSE <<>>,
     iff |-> iff,
     resultName |-> resultName]

byStatsField(name) == [name |-> name, bucketSizeStr |-> "", bucketOffsetStr |-> ""]

\* stats by (level) count() if (status:error) as errs, count() as total
PlanErrs ==
    [byFields |-> <<byStatsField("level")>>,
     funcs |-> <<parsePipeStatsFunc(statsCount, PhraseFilter("status", "error"), "errs"),
                 parsePipeStatsFunc(statsCount, NoFilter, "total")>>]

\* stats by (level) row_any() as r, count() as n
PlanAny ==
    [byFields |-> <<byStatsField("level")>>,
     funcs |-> <<parsePipeStatsFunc(statsRowAny(<<"*">>), NoFilter, "r"),
                 parsePipeStatsFunc(statsCount, NoFilter, "n")>>]

\* stats count() if (status:error) as errs, row_any() as r
PlanNoBy ==
    [byFields |-> <<>>,
     funcs |-> <<parsePipeStatsFunc(statsCount, PhraseFilter("status", "error"), "errs"),
                 parsePipeStatsFunc(statsRowAny(<<"*">>), NoFilter, "r")>>]

Plans == {PlanErrs, PlanAny, PlanNoBy}

-----------------------------------------------------------------------------
(* statsProcessor: count() and row_any.  An update yields the new          *)
(* processor and the change of its state size.                              *)

Upd(sfp, n) == [sfp |-> sfp, n |-> n]

\* sa.newStatsProcessor
newStatsProcessor(sf) ==
    IF sf.name = "count" THEN [rowsCount |-> 0]
    ELSE [captured |-> FALSE, fields |-> <<>>]

newStatsProcessorSize(sf) ==
    IF sf.name = "count" THEN sizeofStatsCountProcessor
    ELSE sizeofStatsRowAnyProcessor

\* statsCountProcessor, for count()
countUpdateStatsForAllRows(scp, br) ==
    Upd([scp EXCEPT !.rowsCount = @ + RowsLen(br)], 0)

countUpdateStatsForRow(scp, br, rowIdx) ==
    Upd([scp EXCEPT !.rowsCount = @ + 1], 0)

countMergeState(scp, src) == [scp EXCEPT !.rowsCount = @ + src.rowsCount]

countFinalizeStats(scp) == ToString(scp.rowsCount)

\* statsRowAnyProcessor.updateState: appends the fetched fields of the row
rowAnyUpdateState(sap, sa, br, rowIdx) ==
    LET names == IF Len(sa.fields) = 0 THEN getColumns(br) ELSE sa.fields
        add == [i \in 1..Len(names) |->
                   [Name |-> names[i], Value |-> getValueAtRow(br, names[i], rowIdx)]]
    IN  Upd([sap EXCEPT !.fields = @ \o add],
            SumSeq([i \in 1..Len(add) |-> StrLen(add[i].Name) + StrLen(add[i].Value)]))

rowAnyUpdateStatsForAllRows(sap, sa, br) ==
    IF RowsLen(br) = 0 THEN Upd(sap, 0)
    ELSE IF sap.captured THEN Upd(sap, 0)
    ELSE rowAnyUpdateState([sap EXCEPT !.captured = TRUE], sa, br, 1)

rowAnyUpdateStatsForRow(sap, sa, br, rowIdx) ==
    IF sap.captured THEN Upd(sap, 0)
    ELSE rowAnyUpdateState([sap EXCEPT !.captured = TRUE], sa, br, rowIdx)

\* a merge that overwrites the receiver whatever it holds
rowAnyMergeStateOverwrite(sap, src) ==
    [sap EXCEPT !.captured = src.captured, !.fields = src.fields]

\* a merge that takes the fields of the other state without its flag
rowAnyMergeStateKeepFlag(sap, src) ==
    IF ~sap.captured THEN [sap EXCEPT !.fields = src.fields] ELSE sap

\* a merge in which the state of the later shard wins
rowAnyMergeStateLastWins(sap, src) ==
    IF src.captured
    THEN [sap EXCEPT !.captured = src.captured, !.fields = src.fields]
    ELSE sap

\* statsRowAnyProcessor.mergeState: the receiver keeps what it captured
rowAnyMergeState(sap, src) ==
    IF ~sap.captured
    THEN [sap EXCEPT !.captured = src.captured, !.fields = src.fields]
    ELSE sap

rowAnyFinalizeStats(sap) == sap.fields

\* dispatch on the statsFunc of the processor
updateStatsForAllRows(sf, sfp, br) ==
    IF sf.name = "count" THEN countUpdateStatsForAllRows(sfp, br)
    ELSE rowAnyUpdateStatsForAllRows(sfp, sf, br)

updateStatsForRow(sf, sfp, br, rowIdx) ==
    IF sf.name = "count" THEN countUpdateStatsForRow(sfp, br, rowIdx)
    ELSE rowAnyUpdateStatsForRow(sfp, sf, br, rowIdx)

mergeState(sf, sfp, src) ==
    IF sf.name = "count" THEN countMergeState(sfp, src)
    ELSE rowAnyMergeState(sfp, src)

finalizeStats(sf, sfp) ==
    IF sf.name = "count" THEN countFinalizeStats(sfp)
    ELSE rowAnyFinalizeStats(sfp)

\* len(value) of a finalized value
finalizedLen(sf, value) ==
    IF sf.name = "count" THEN StrLen(value) ELSE JSONLen(value)

-----------------------------------------------------------------------------
(* pipeStatsGroup and pipeStatsProcessorShard *)

\* psg.updateStatsForAllRows(brs): the updated group and the summed size change
psgUpdateStatsForAllRows(funcs, psg, brs) ==
    LET r == [i \in 1..Len(psg.sfps) |->
                 updateStatsForAllRows(funcs[i].f, psg.sfps[i], brs[i])]
    IN  [psg |-> [sfps |-> [i \in 1..Len(psg.sfps) |-> r[i].sfp]],
         n |-> SumSeq([i \in 1..Len(psg.sfps) |-> r[i].n])]

\* psg.updateStatsForRow(brs, rowIdx)
psgUpdateStatsForRow(funcs, psg, brs, rowIdx) ==
    LET r == [i \in 1..Len(psg.sfps) |->
                 updateStatsForRow(funcs[i].f, psg.sfps[i], brs[i], rowIdx)]
    IN  [psg |-> [sfps |-> [i \in 1..Len(psg.sfps) |-> r[i].sfp]],
         n |-> SumSeq([i \in 1..Len(psg.sfps) |-> r[i].n])]

\* bitmaps that keep the bits cleared by the filters of the earlier functions
applyPerFunctionFiltersKeepBits(funcs, brSrc) ==
    [i \in 1..Len(funcs) |->
        IF ~funcs[i].iff.set THEN brSrc
        ELSE LET bm == [j \in 1..Len(brSrc) |->
                          \A k \in 1..i :
                              funcs[k].iff.set => applyToBlockResult(funcs[k].iff, brSrc)[j]]
             IN  IF \A j \in 1..Len(bm) : bm[j] THEN brSrc
                 ELSE IF \A j \in 1..Len(bm) : ~bm[j] THEN <<>>
                 ELSE initFromFilterNeededColumns(brSrc, bm, funcs[i].neededFieldsForFunc)]

\* shard.applyPerFunctionFilters(brSrc): brs, one block per function
applyPerFunctionFilters(funcs, brSrc) ==
    [i \in 1..Len(funcs) |->
        IF ~funcs[i].iff.set THEN brSrc
        ELSE LET bm == applyToBlockResult(funcs[i].iff, brSrc)
             IN  IF \A j \in 1..Len(bm) : bm[j] THEN brSrc
                 ELSE IF \A j \in 1..Len(bm) : ~bm[j] THEN <<>>
                 ELSE initFromFilterNeededColumns(brSrc, bm, funcs[i].neededFieldsForFunc)]

\* a map with one more entry
MapPut(m, key, psg) ==
    [k \in DOMAIN m \cup {key} |-> IF k = key THEN psg ELSE m[k]]

\* a lookup that stores the key as a view of the scratch buffer: the group
\* stored under the previous content of keyBuf is found under the new content
getPipeStatsGroupKeyView(plan, shard, key) ==
    LET old == shard.keyBuf
        sfps == [i \in 1..Len(plan.funcs) |-> newStatsProcessor(plan.funcs[i].f)]
        stateSize == SumSeq([i \in 1..Len(plan.funcs) |->
                                newStatsProcessorSize(plan.funcs[i].f)])
    IN  IF key \in DOMAIN shard.m THEN shard
        ELSE IF old \in DOMAIN shard.m
        THEN [shard EXCEPT
                !.m = [k \in (DOMAIN shard.m \ {old}) \cup {key} |->
                          IF k = key THEN shard.m[old] ELSE shard.m[k]]]
        ELSE [shard EXCEPT
                !.m = MapPut(shard.m, key, [sfps |-> sfps]),
                !.stateSizeBudget = @ - stateSize
                    - (BytesLen(key) + sizeofString + sizeofPointer
                       + sizeofInterface * Len(sfps))]

\* a lookup that builds and charges a fresh group for every key, present or not
getPipeStatsGroupAlwaysNew(plan, shard, key) ==
    LET sfps == [i \in 1..Len(plan.funcs) |-> newStatsProcessor(plan.funcs[i].f)]
        stateSize == SumSeq([i \in 1..Len(plan.funcs) |->
                                newStatsProcessorSize(plan.funcs[i].f)])
    IN  [shard EXCEPT
           !.m = MapPut(shard.m, key, [sfps |-> sfps]),
           !.stateSizeBudget = @ - stateSize
               - (BytesLen(key) + sizeofString + sizeofPointer
                  + sizeofInterface * Len(sfps))]

\* shard.getPipeStatsGroup(key): the shard, holding a group for key
getPipeStatsGroup(plan, shard, key) ==
    IF key \in DOMAIN shard.m THEN shard
    ELSE LET sfps == [i \in 1..Len(plan.funcs) |-> newStatsProcessor(plan.funcs[i].f)]
             stateSize == SumSeq([i \in 1..Len(plan.funcs) |->
                                     newStatsProcessorSize(plan.funcs[i].f)])
         IN  [shard EXCEPT
                !.m = MapPut(shard.m, key, [sfps |-> sfps]),
                !.stateSizeBudget = @ - stateSize
                    - (BytesLen(key) + sizeofString + sizeofPointer
                       + sizeofInterface * Len(sfps))]

\* an update of all rows whose returned size change is dropped
shardUpdateAllRowsUncharged(plan, shard, key, brs) ==
    LET sh == getPipeStatsGroup(plan, shard, key)
        u == psgUpdateStatsForAllRows(plan.funcs, sh.m[key], brs)
    IN  [sh EXCEPT !.m[key] = u.psg]

\* psg := shard.getPipeStatsGroup(key);
\* shard.stateSizeBudget -= psg.updateStatsForAllRows(brs)
shardUpdateAllRows(plan, shard, key, brs) ==
    LET sh == getPipeStatsGroup(plan, shard, key)
        u == psgUpdateStatsForAllRows(plan.funcs, sh.m[key], brs)
    IN  [sh EXCEPT !.m[key] = u.psg, !.stateSizeBudget = @ - u.n]

\* a key that leaves out the empty values
rowKeySkipEmpty(columnValues, i) ==
    LET F[k \in 0..Len(columnValues)] ==
            IF k = 0 THEN <<>>
            ELSE IF columnValues[k][i] = "" THEN F[k - 1]
            ELSE MarshalBytes(F[k - 1], columnValues[k][i])
    IN  F[Len(columnValues)]

\* the key of row i: MarshalBytes of each by-field value
rowKey(columnValues, i) ==
    LET F[k \in 0..Len(columnValues)] ==
            IF k = 0 THEN <<>> ELSE MarshalBytes(F[k - 1], columnValues[k][i])
    IN  F[Len(columnValues)]

\* the per-row loops of shard.writeBlock, from row i on; key is the key of
\* the group psg points to.  keyBuf is built in the scratch buffer of the
\* shard (keyBuf := shard.keyBuf[:0]), so shard.keyBuf holds the last key built
RECURSIVE shardRowLoop(_, _, _, _, _, _)
shardRowLoop(plan, shard, brs, columnValues, i, key) ==
    IF i > Len(columnValues[1]) THEN [shard EXCEPT !.keyBuf = key]
    ELSE LET sameValue ==
                 /\ i > 1
                 /\ \A k \in 1..Len(columnValues) :
                        columnValues[k][i - 1] = columnValues[k][i]
             keyBuf == IF sameValue THEN key ELSE rowKey(columnValues, i)
             sh == IF sameValue THEN shard ELSE getPipeStatsGroup(plan, shard, keyBuf)
             u == psgUpdateStatsForRow(plan.funcs, sh.m[keyBuf], brs, i)
         IN  shardRowLoop(plan,
                          [sh EXCEPT !.m[keyBuf] = u.psg, !.stateSizeBudget = @ - u.n,
                                     !.keyBuf = keyBuf],
                          brs, columnValues, i + 1, keyBuf)

\* shard.keyBuf = MarshalBytes(shard.keyBuf[:0], ...) of a constant key,
\* the lookup of its group and the update of all rows
shardUpdateConstKey(plan, shard, key, brs) ==
    [shardUpdateAllRows(plan, shard, key, brs) EXCEPT !.keyBuf = key]

\* shard.writeBlock(br); isConst is c.isConst of the column of a single by-field
shardWriteBlock(plan, shard, br, isConst) ==
    LET byFields == plan.byFields
        brs == applyPerFunctionFilters(plan.funcs, br)
        columnValues == [k \in 1..Len(byFields) |-> getValuesBucketed(br, byFields[k])]
    IN  IF Len(byFields) = 0
        THEN shardUpdateAllRows(plan, shard, <<>>, brs)
        ELSE IF Len(byFields) = 1
        THEN IF isConst \/ areConstValues(columnValues[1])
             THEN shardUpdateConstKey(plan, shard,
                                      MarshalBytes(<<>>, columnValues[1][1]), brs)
             ELSE shardRowLoop(plan, shard, brs, columnValues, 1, <<>>)
        ELSE IF \A k \in 1..Len(columnValues) : areConstValues(columnValues[k])
             THEN shardUpdateConstKey(plan, shard, rowKey(columnValues, 1), brs)
             ELSE shardRowLoop(plan, shard, brs, columnValues, 1, <<>>)

-----------------------------------------------------------------------------
(* Inputs *)

Rows == {Row("info", "ok"), Row("warn", "error"), Row("warn", BigValue)}

\* the block of the scenario {info,ok}, {info,error}, {warn,error}
ScenarioBlock == <<Row("info", "ok"), Row("info", "error"), Row("warn", "error")>>

Blocks == UNION {[1..n -> Rows] : n \in 0..MaxRows} \cup {ScenarioBlock}

AllRows == UNION {SeqToSet(br) : br \in Blocks}

\* memory.Allowed(), in bytes
AllowedBytes == {4194304, 8388608, 10485760}

Workers == 1..workersCount

Perms(S) == {p \in [1..Cardinality(S) -> S] : \A i, j \in DOMAIN p : p[i] = p[j] => i = j}

-----------------------------------------------------------------------------
(* pipeStatsProcessor *)

EmptyMap == <<>>

\* int64(float64(memory.Allowed()) * 0.3)
AllowedStateSize(allowed) == (allowed * 3) \div 10

\* ps.newPipeProcessor(workersCount, stopCh, cancel, ppBase)
newPipeProcessor(plan, n, allowed) ==
    LET F[i \in 0..n] ==
            IF i = 0 THEN AllowedStateSize(allowed) ELSE F[i - 1] - stateSizeBudgetChunk
    IN  [shards |-> [i \in 1..n |-> [m |-> EmptyMap, keyBuf |-> <<>>,
                                    stateSizeBudget |-> stateSizeBudgetChunk]],
         maxStateSize |-> F[n]]

\* no shard.writeBlock call was made yet; parsePipeStats was not called
NoBlock == [br |-> <<>>, isConst |-> FALSE, brs |-> <<>>]

NotParsed ==
    [op |-> "", query |-> <<>>, nil |-> TRUE, err |-> <<>>,
     ps |-> [byFields |-> <<>>, funcs |-> <<>>], f |-> [name |-> "", fields |-> <<>>]]

Init ==
    \E n \in 1..MaxWorkers, plan \in Plans, allowed \in AllowedBytes :
        LET psp == newPipeProcessor(plan, n, allowed)
        IN  /\ workersCount = n
            /\ ps = plan
            /\ maxStateSize = psp.maxStateSize
            /\ stateSizeBudget = psp.maxStateSize
            /\ shards = psp.shards
            /\ pc = [w \in 1..n |-> "idle"]
            /\ pending = [w \in 1..n |-> [br |-> <<>>, isConst |-> FALSE]]
            /\ writes = 0
            /\ dropped = 0
            /\ cancelCalls = 0
            /\ stopClosed = FALSE
            /\ flushState = "none"
            /\ out = <<>>
            /\ single = EmptyMap
            /\ seen = [r \in AllRows |-> 0]
            /\ shardBefore = psp.shards[1]
            /\ shardBlock = NoBlock
            /\ lex = <<>>
            /\ parsed = NotParsed

\* every worker aggregating into the first shard
AggregatedShared(w, br, isConst) ==
    [shards EXCEPT ![1] = shardWriteBlock(ps, shards[1], br, isConst)]

\* the shard of worker w after shard.writeBlock(br)
Aggregated(w, br, isConst) ==
    [shards EXCEPT ![w] = shardWriteBlock(ps, shards[w], br, isConst)]

\* the single-shard run sees the same block
SingleAggregated(br, isConst) ==
    shardWriteBlock(ps, [m |-> single, keyBuf |-> <<>>, stateSizeBudget |-> 0], br, isConst).m

\* the rows of br are counted as aggregated
Seen(br) ==
    [r \in AllRows |-> seen[r] + Cardinality({i \in 1..Len(br) : br[i] = r})]

\* c.isConst can hold only for a column whose values are all the same
MayBeConst(br) ==
    /\ Len(ps.byFields) = 1
    /\ areConstValues(getValuesBucketed(br, ps.byFields[1]))

\* a writeBlock that has no early return for a block without rows
noTimestampsNever(br) == FALSE

\* len(br.timestamps) == 0
noTimestamps(br) == RowsLen(br) = 0

\* psp.writeBlock(workerID, br) up to its first read of the global budget
WriteBlock(w) ==
    /\ flushState = "none"
    /\ pc[w] = "idle"
    /\ writes < MaxWrites
    /\ \E br \in Blocks, isConst \in BOOLEAN :
        /\ isConst => MayBeConst(br)
        /\ writes' = writes + 1
        /\ IF noTimestamps(br)
           THEN UNCHANGED <<shards, pc, pending, single, seen>>
           ELSE IF shards[w].stateSizeBudget < 0
           THEN /\ pc' = [pc EXCEPT ![w] = "borrow"]
                /\ pending' = [pending EXCEPT ![w] = [br |-> br, isConst |-> isConst]]
                /\ UNCHANGED <<shards, single, seen>>
           ELSE /\ shards' = Aggregated(w, br, isConst)
                /\ single' = SingleAggregated(br, isConst)
                /\ seen' = Seen(br)
                /\ UNCHANGED <<pc, pending>>
    /\ UNCHANGED <<workersCount, ps, maxStateSize, stateSizeBudget, dropped,
                   cancelCalls, stopClosed, flushState, out, auxVars>>

\* a borrow that never fails
budgetExhaustedNever(remaining) == FALSE

\* a borrow that fails one chunk too late
budgetExhaustedLate(remaining) == remaining + stateSizeBudgetChunk < 0

\* remaining < 0: the state size is too big
budgetExhausted(remaining) == remaining < 0

\* every failed borrow cancels; no failed borrow cancels
mustCancelAlways(remaining) == TRUE

mustCancelNever(remaining) == FALSE

\* remaining+stateSizeBudgetChunk >= 0: this call is the one to cancel
mustCancel(remaining) == remaining + stateSizeBudgetChunk >= 0

\* a loop that never adds the borrowed chunk to the local budget
BorrowNoCredit(w) ==
    /\ pc[w] = "borrow"
    /\ LET remaining == stateSizeBudget - stateSizeBudgetChunk
       IN  /\ stateSizeBudget' = remaining
           /\ IF budgetExhausted(remaining)
              THEN /\ cancelCalls' = IF mustCancel(remaining) THEN cancelCalls + 1
                                     ELSE cancelCalls
                   /\ dropped' = dropped + 1
                   /\ pc' = [pc EXCEPT ![w] = "idle"]
                   /\ pending' = [pending EXCEPT ![w] = [br |-> <<>>, isConst |-> FALSE]]
                   /\ UNCHANGED <<shards, single, seen>>
              ELSE UNCHANGED <<shards, cancelCalls, dropped, pc, pending, single, seen>>
    /\ UNCHANGED <<workersCount, ps, maxStateSize, writes, stopClosed, flushState, out,
                   auxVars>>

\* a loop that gives the chunk of a failed attempt back to the global budget
BorrowRefund(w) ==
    /\ pc[w] = "borrow"
    /\ LET remaining == stateSizeBudget - stateSizeBudgetChunk
           budget == shards[w].stateSizeBudget + stateSizeBudgetChunk
           sh == [shards EXCEPT ![w].stateSizeBudget = budget]
       IN  IF budgetExhausted(remaining)
           THEN /\ stateSizeBudget' = stateSizeBudget
                /\ cancelCalls' = IF mustCancel(remaining) THEN cancelCalls + 1
                                  ELSE cancelCalls
                /\ dropped' = dropped + 1
                /\ pc' = [pc EXCEPT ![w] = "idle"]
                /\ pending' = [pending EXCEPT ![w] = [br |-> <<>>, isConst |-> FALSE]]
                /\ UNCHANGED <<shards, single, seen>>
           ELSE IF budget < 0
           THEN /\ stateSizeBudget' = remaining
                /\ shards' = sh
                /\ UNCHANGED <<cancelCalls, dropped, pc, pending, single, seen>>
           ELSE /\ stateSizeBudget' = remaining
                /\ shards' = [sh EXCEPT ![w] =
                       shardWriteBlock(ps, sh[w], pending[w].br, pending[w].isConst)]
                /\ single' = SingleAggregated(pending[w].br, pending[w].isConst)
                /\ seen' = Seen(pending[w].br)
                /\ pc' = [pc EXCEPT ![w] = "idle"]
                /\ pending' = [pending EXCEPT ![w] = [br |-> <<>>, isConst |-> FALSE]]
                /\ UNCHANGED <<cancelCalls, dropped>>
    /\ UNCHANGED <<workersCount, ps, maxStateSize, writes, stopClosed, flushState, out,
                   auxVars>>

\* one iteration of the loop `for shard.stateSizeBudget < 0` of psp.writeBlock,
\* followed by shard.writeBlock(br) when the loop ends
Borrow(w) ==
    /\ pc[w] = "borrow"
    /\ LET remaining == stateSizeBudget - stateSizeBudgetChunk
           budget == shards[w].stateSizeBudget + stateSizeBudgetChunk
           sh == [shards EXCEPT ![w].stateSizeBudget = budget]
       IN  /\ stateSizeBudget' = remaining
           /\ IF budgetExhausted(remaining)
              THEN /\ cancelCalls' = IF mustCancel(remaining) THEN cancelCalls + 1
                                     ELSE cancelCalls
                   /\ dropped' = dropped + 1
                   /\ pc' = [pc EXCEPT ![w] = "idle"]
                   /\ pending' = [pending EXCEPT ![w] = [br |-> <<>>, isConst |-> FALSE]]
                   /\ UNCHANGED <<shards, single, seen>>
              ELSE IF budget < 0
              THEN /\ shards' = sh
                   /\ UNCHANGED <<cancelCalls, dropped, pc, pending, single, seen>>
              ELSE /\ shards' = [sh EXCEPT ![w] =
                          shardWriteBlock(ps, sh[w], pending[w].br, pending[w].isConst)]
                   /\ single' = SingleAggregated(pending[w].br, pending[w].isConst)
                   /\ seen' = Seen(pending[w].br)
                   /\ pc' = [pc EXCEPT ![w] = "idle"]
                   /\ pending' = [pending EXCEPT ![w] = [br |-> <<>>, isConst |-> FALSE]]
                   /\ UNCHANGED <<cancelCalls, dropped>>
    /\ UNCHANGED <<workersCount, ps, maxStateSize, writes, stopClosed, flushState, out,
                   auxVars>>

\* the owner of stopCh closes it
CloseStopCh ==
    /\ flushState = "none"
    /\ ~stopClosed
    /\ stopClosed' = TRUE
    /\ UNCHANGED <<workersCount, ps, maxStateSize, stateSizeBudget, shards, pc,
                   pending, writes, dropped, cancelCalls, flushState, out, single,
                   seen, auxVars>>

-----------------------------------------------------------------------------
(* flush().  Go ranges over a map in an unspecified order: mo and eo are   *)
(* the orders of the merge loops and of the emit loop.  needStop(stopCh)   *)
(* is polled once per iteration; stopAt is the number of polls that find   *)
(* stopCh open before one finds it closed.                                 *)

\* a flush() that skips the budget check
flushBudgetNeverExceeded(n) == FALSE

\* n := psp.stateSizeBudget.Load(); n <= 0
flushBudgetExceeded(n) == n <= 0

\* loops that never look at stopCh
needStopNever(polls, stopAt) == FALSE

\* needStop(psp.stopCh), at the poll that follows `polls` earlier ones
needStop(polls, stopAt) == polls >= stopAt

KeysInOrder(m, ord) == SelectSeq(ord, LAMBDA k : k \in DOMAIN m)

\* the (shard, key) pairs the merge loops visit, shards[1:] in index order
RECURSIVE mergeList(_, _, _)
mergeList(shs, ord, i) ==
    IF i > Len(shs) THEN <<>>
    ELSE LET keys == KeysInOrder(shs[i].m, ord)
         IN  [j \in 1..Len(keys) |-> <<i, keys[j]>>] \o mergeList(shs, ord, i + 1)

\* a merge loop that transplants the group even when the key is present
mergeGroupOverwrite(plan, m, key, psg) == MapPut(m, key, psg)

\* the body of the merge loop for one key of another shard
mergeGroup(plan, m, key, psg) ==
    IF key \notin DOMAIN m THEN MapPut(m, key, psg)
    ELSE [m EXCEPT ![key] =
             [sfps |-> [i \in 1..Len(m[key].sfps) |->
                           mergeState(plan.funcs[i].f, m[key].sfps[i], psg.sfps[i])]]]

\* the merge loops from pair j on; polls counts the needStop calls made
RECURSIVE flushMerge(_, _, _, _, _, _, _)
flushMerge(plan, shs, m, L, j, polls, stopAt) ==
    IF j > Len(L) THEN [m |-> m, polls |-> polls, stopped |-> FALSE]
    ELSE IF needStop(polls, stopAt) THEN [m |-> m, polls |-> polls, stopped |-> TRUE]
    ELSE flushMerge(plan, shs,
                    mergeGroup(plan, m, L[j][2], shs[L[j][1]].m[L[j][2]]),
                    L, j + 1, polls + 1, stopAt)

\* the loop `for len(keyBuf) > 0` of flush: the values of a key
RECURSIVE unmarshalKey(_)
unmarshalKey(keyBuf) ==
    IF Len(keyBuf) = 0 THEN [ok |-> TRUE, values |-> <<>>]
    ELSE LET u == UnmarshalBytes(keyBuf)
         IN  IF u.nSize <= 0 THEN [ok |-> FALSE, values |-> <<>>]
             ELSE LET rest == unmarshalKey(SubSeq(keyBuf, u.nSize + 1, Len(keyBuf)))
                  IN  [ok |-> rest.ok, values |-> <<u.v>> \o rest.values]

\* columns that start with the result names
resultColumnsFuncsFirst(plan) ==
    [i \in 1..Len(plan.funcs) |-> plan.funcs[i].resultName]
        \o [i \in 1..Len(plan.byFields) |-> plan.byFields[i].name]

\* the names of rcs: by-field names, then result names
resultColumns(plan) ==
    [i \in 1..Len(plan.byFields) |-> plan.byFields[i].name]
        \o [i \in 1..Len(plan.funcs) |-> plan.funcs[i].resultName]

\* a block handed to ppBase.writeBlock: br.setResultColumns(rcs)
ResultBlock(plan, rows) == [names |-> resultColumns(plan), rows |-> rows]

\* the values of the row of group psg with the given key, and their summed length
groupValues(plan, key, psg) ==
    LET k == unmarshalKey(key)
        fv == [i \in 1..Len(psg.sfps) |-> finalizeStats(plan.funcs[i].f, psg.sfps[i])]
    IN  [ok |-> k.ok /\ Len(k.values) = Len(plan.byFields),
         values |-> k.values \o fv,
         len |-> SumSeq([i \in 1..Len(k.values) |-> StrLen(k.values[i])])
                 + SumSeq([i \in 1..Len(fv) |-> finalizedLen(plan.funcs[i].f, fv[i])])]

\* valuesLen >= 1_000_000: write the block and start the next one
mustWriteBlock(valuesLen) == valuesLen >= flushBlockBytes

\* a final write made only when rows are left
finalBlocksIfRows(plan, blocks, rows) ==
    IF Len(rows) = 0 THEN blocks ELSE Append(blocks, ResultBlock(plan, rows))

\* the block written after the loop over the groups
finalBlocks(plan, blocks, rows) == Append(blocks, ResultBlock(plan, rows))

\* the emit loop from key j on, then the final write
RECURSIVE flushEmit(_, _, _, _, _, _, _, _, _)
flushEmit(plan, m, keys, j, polls, stopAt, rows, valuesLen, blocks) ==
    IF j > Len(keys) THEN [state |-> "ok", out |-> finalBlocks(plan, blocks, rows)]
    ELSE IF needStop(polls, stopAt) THEN [state |-> "stopped", out |-> blocks]
    ELSE LET g == groupValues(plan, keys[j], m[keys[j]])
             rows2 == Append(rows, g.values)
             len2 == valuesLen + g.len
         IN  IF ~g.ok THEN [state |-> "panic", out |-> blocks]
             ELSE IF mustWriteBlock(len2)
             THEN flushEmit(plan, m, keys, j + 1, polls + 1, stopAt, <<>>, 0,
                            Append(blocks, ResultBlock(plan, rows2)))
             ELSE flushEmit(plan, m, keys, j + 1, polls + 1, stopAt, rows2, len2, blocks)

\* the index, in psp.shards, of `shards[0]` after `shards = shards[1:]`
zeroRowsShard == 2

\* psp.flush(): the state it returns in, the blocks written and the shards after it
flush(plan, shs, budget, mo, eo, stopAt) ==
    IF flushBudgetExceeded(budget) THEN [state |-> "error", out |-> <<>>, shards |-> shs]
    ELSE
    LET mg == flushMerge(plan, shs, shs[1].m, mergeList(shs, mo, 2), 1, 0, stopAt)
        merged == [shs EXCEPT ![1].m = mg.m]
    IN  IF mg.stopped THEN [state |-> "stopped", out |-> <<>>, shards |-> merged]
        ELSE IF Len(plan.byFields) = 0 /\ DOMAIN mg.m = {}
        THEN IF zeroRowsShard > Len(shs)
             THEN \* shards[0] of an empty slice: index out of range
                  [state |-> "panic", out |-> <<>>, shards |-> merged]
             ELSE LET sh == getPipeStatsGroup(plan, merged[zeroRowsShard], <<>>)
                      e == flushEmit(plan, sh.m, KeysInOrder(sh.m, eo), 1, mg.polls,
                                     stopAt, <<>>, 0, <<>>)
                  IN  [state |-> e.state, out |-> e.out,
                       shards |-> [merged EXCEPT ![zeroRowsShard] = sh]]
        ELSE LET e == flushEmit(plan, mg.m, KeysInOrder(mg.m, eo), 1, mg.polls,
                                stopAt, <<>>, 0, <<>>)
             IN  [state |-> e.state, out |-> e.out, shards |-> merged]

\* every key some shard holds, and the empty key flush may add
KeyUniverse ==
    UNION {DOMAIN shards[w].m : w \in Workers}
        \cup (IF Len(ps.byFields) = 0 THEN {<<>>} ELSE {})

\* an upper bound of the needStop polls of one flush
MaxPolls == 1 + Cardinality(KeyUniverse) * workersCount

\* flush() is called once, after all workers have returned from writeBlock
Flush ==
    /\ flushState = "none"
    /\ \A w \in Workers : pc[w] = "idle"
    /\ \E mo \in Perms(KeyUniverse), eo \in Perms(KeyUniverse),
          stopAt \in (IF stopClosed THEN {0} ELSE 0..MaxPolls) :
        LET r == flush(ps, shards, stateSizeBudget, mo, eo, stopAt)
        IN  /\ flushState' = r.state
            /\ out' = r.out
            /\ shards' = r.shards
            /\ stopClosed' = (stopClosed \/ r.state = "stopped")
    /\ UNCHANGED <<workersCount, ps, maxStateSize, stateSizeBudget, pc, pending,
                   writes, dropped, cancelCalls, single, seen, auxVars>>

Next ==
    \/ \E w \in Workers : WriteBlock(w)
    \/ \E w \in Workers : Borrow(w)
    \/ CloseStopCh
    \/ Flush

Spec == Init /\ [][Next]_vars

-----------------------------------------------------------------------------
(* shard.writeBlock on its own: one shard is given blocks whose by-field    *)
(* values include the empty string, a column the block does not have, and   *)
(* equal values in rows that are not adjacent.                              *)

ShardRows == {Row(l, st) : l \in {"", "a"}, st \in {"ok", "error"}}

ShardBlocks == UNION {[1..n -> ShardRows] : n \in 1..MaxShardRows}

\* stats by (level, status) row_any() as r, count() as n
ShardPlanTwo ==
    [byFields |-> <<byStatsField("level"), byStatsField("status")>>,
     funcs |-> <<parsePipeStatsFunc(statsRowAny(<<"*">>), NoFilter, "r"),
                 parsePipeStatsFunc(statsCount, NoFilter, "n")>>]

\* stats by (host, level) count() as n, row_any() as r: no block has a column host
ShardPlanMissing ==
    [byFields |-> <<byStatsField("host"), byStatsField("level")>>,
     funcs |-> <<parsePipeStatsFunc(statsCount, NoFilter, "n"),
                 parsePipeStatsFunc(statsRowAny(<<"*">>), NoFilter, "r")>>]

\* stats count() as n, row_any() as r
ShardPlanNoBy ==
    [byFields |-> <<>>,
     funcs |-> <<parsePipeStatsFunc(statsCount, NoFilter, "n"),
                 parsePipeStatsFunc(statsRowAny(<<"*">>), NoFilter, "r")>>]

\* stats count() if (status:error) as errs, row_any() if (level:a) as r, count() as n
ShardPlanFilters ==
    [byFields |-> <<>>,
     funcs |-> <<parsePipeStatsFunc(statsCount, PhraseFilter("status", "error"), "errs"),
                 parsePipeStatsFunc(statsRowAny(<<"*">>), PhraseFilter("level", "a"), "r"),
                 parsePipeStatsFunc(statsCount, NoFilter, "n")>>]

\* stats by (level) row_any() if (status:never) as r, count() as n
ShardPlanNever ==
    [byFields |-> <<byStatsField("level")>>,
     funcs |-> <<parsePipeStatsFunc(statsRowAny(<<"*">>), PhraseFilter("status", "never"), "r"),
                 parsePipeStatsFunc(statsCount, NoFilter, "n")>>]

ShardPlans == {ShardPlanTwo, ShardPlanMissing, ShardPlanNoBy, ShardPlanFilters,
               ShardPlanNever, PlanAny, PlanErrs}

ShardInit ==
    \E plan \in ShardPlans :
        LET psp == newPipeProcessor(plan, 1, 10485760)
        IN  /\ workersCount = 1
            /\ ps = plan
            /\ maxStateSize = psp.maxStateSize
            /\ stateSizeBudget = psp.maxStateSize
            /\ shards = psp.shards
            /\ pc = <<"idle">>
            /\ pending = <<[br |-> <<>>, isConst |-> FALSE]>>
            /\ writes = 0
            /\ dropped = 0
            /\ cancelCalls = 0
            /\ stopClosed = FALSE
            /\ flushState = "none"
            /\ out = <<>>
            /\ single = EmptyMap
            /\ seen = [r \in AllRows |-> 0]
            /\ shardBefore = psp.shards[1]
            /\ shardBlock = NoBlock
            /\ lex = <<>>
            /\ parsed = NotParsed

\* shard.writeBlock(br) on the shard of worker 0
ShardWriteBlock ==
    /\ flushState = "none"
    /\ writes < MaxShardWrites
    /\ \E br \in ShardBlocks, isConst \in BOOLEAN :
        /\ isConst => MayBeConst(br)
        /\ writes' = writes + 1
        /\ shardBefore' = shards[1]
        /\ shardBlock' = [br |-> br, isConst |-> isConst,
                          brs |-> applyPerFunctionFilters(ps.funcs, br)]
        /\ shards' = <<shardWriteBlock(ps, shards[1], br, isConst)>>
    /\ UNCHANGED <<workersCount, ps, maxStateSize, stateSizeBudget, pc, pending,
                   dropped, cancelCalls, stopClosed, flushState, out, single, seen,
                   lex, parsed>>

\* flush() of the one-shard processor, after at least one block, stopCh open
ShardFlush ==
    /\ flushState = "none"
    /\ writes >= 1
    /\ \E eo \in Perms(KeyUniverse) :
        LET r == flush(ps, shards, stateSizeBudget, eo, eo, MaxPolls)
        IN  /\ flushState' = r.state
            /\ out' = r.out
            /\ shards' = r.shards
    /\ UNCHANGED <<workersCount, ps, maxStateSize, stateSizeBudget, pc, pending,
                   writes, dropped, cancelCalls, stopClosed, single, seen, auxVars>>

ShardNext == ShardWriteBlock \/ ShardFlush

ShardSpec == ShardInit /\ [][ShardNext]_vars

-----------------------------------------------------------------------------
(* The parser of the stats pipe.  A lexer is the sequence of the tokens     *)
(* it has not consumed yet; its current token is the first of them, and ""  *)
(* once the input is exhausted.  A parsing function returns the error (a    *)
(* sequence of messages, outermost first, empty on success), the lexer it   *)
(* leaves and the value it parsed.                                          *)

lexToken(l) == IF Len(l) = 0 THEN "" ELSE Head(l)

nextToken(l) == IF Len(l) = 0 THEN l ELSE Tail(l)

isKeyword(l, keywords) == lexToken(l) \in keywords

\* body(v) for the value v of e, which is computed once
Bind(e, body(_)) == CHOOSE res \in {body(v) : v \in {e}} : TRUE

Ok(l, val) == [err |-> <<>>, lex |-> l, val |-> val]

Errorf(l, msg) == [err |-> msg, lex |-> l, val |-> <<>>]

\* fmt.Errorf("msg: %w", err)
Wrapf(msg, r) == [r EXCEPT !.err = msg \o @]

StopTokens == {",", "(", ")", "[", "]", "|", ""}

\* getCompoundToken(lex); getCompoundPhrase(lex, false): tokens of the model
\* are separated by spaces, so a compound token is one token
getCompoundToken(l) ==
    IF isKeyword(l, StopTokens)
    THEN Errorf(l, <<"compound token cannot start with", lexToken(l)>>)
    ELSE Ok(nextToken(l), lexToken(l))

getCanonicalColumnName(name) == IF name = "" THEN "_msg" ELSE name

parseFieldName(l) ==
    Bind(getCompoundToken(l), LAMBDA r :
        IF r.err # <<>> THEN Wrapf(<<"cannot parse field name">>, r)
        ELSE Ok(r.lex, getCanonicalColumnName(r.val)))

RECURSIVE fieldNamesLoop(_, _)
\* the loop of parseFieldNamesInParens; l is the lexer before lex.nextToken()
fieldNamesLoop(l, fields) ==
    Bind(nextToken(l), LAMBDA l1 :
        IF isKeyword(l1, {")"}) THEN Ok(nextToken(l1), fields)
        ELSE IF isKeyword(l1, {","}) THEN Errorf(l1, <<"unexpected ,">>)
        ELSE Bind(parseFieldName(l1), LAMBDA r :
                 IF r.err # <<>> THEN Wrapf(<<"cannot parse field name">>, r)
                 ELSE IF isKeyword(r.lex, {")"})
                 THEN Ok(nextToken(r.lex), Append(fields, r.val))
                 ELSE IF isKeyword(r.lex, {","})
                 THEN fieldNamesLoop(r.lex, Append(fields, r.val))
                 ELSE Errorf(r.lex, <<"unexpected token; expecting ',' or ')'",
                                      lexToken(r.lex)>>)))

parseFieldNamesInParens(l) ==
    IF ~isKeyword(l, {"("}) THEN Errorf(l, <<"missing (">>)
    ELSE fieldNamesLoop(l, <<>>)

parseFieldNamesForStatsFunc(l, funcName) ==
    IF ~isKeyword(l, {funcName}) THEN Errorf(l, <<"unexpected func", lexToken(l)>>)
    ELSE Bind(parseFieldNamesInParens(nextToken(l)), LAMBDA r :
             IF r.err # <<>> THEN Wrapf(<<"cannot parse args", funcName>>, r)
             ELSE IF Len(r.val) = 0 \/ "*" \in SeqToSet(r.val) THEN Ok(r.lex, <<"*">>)
             ELSE r)

parseStatsRowAny(l) ==
    IF ~isKeyword(l, {"row_any"}) THEN Errorf(l, <<"unexpected func", lexToken(l)>>)
    ELSE Bind(parseFieldNamesInParens(nextToken(l)), LAMBDA r :
             IF r.err # <<>> THEN Wrapf(<<"cannot parse 'row_any' args">>, r)
             ELSE Ok(r.lex, statsRowAny(r.val)))

\* parseStatsCount, parseStatsSum, ...: the name and the fields in parens
parseStatsFields(l, funcName) ==
    Bind(parseFieldNamesForStatsFunc(l, funcName), LAMBDA r :
        IF r.err # <<>> THEN r
        ELSE Ok(r.lex, [name |-> funcName, fields |-> r.val]))

\* the cases of the switch of parseStatsFunc
StatsFuncKeywords ==
    {"count", "count_empty", "count_uniq", "sum", "max", "min", "avg",
     "uniq_values", "values", "sum_len", "quantile", "median"}

parseStatsFunc(l) ==
    IF isKeyword(l, StatsFuncKeywords)
    THEN Bind(parseStatsFields(l, lexToken(l)), LAMBDA r :
             IF r.err # <<>> THEN Wrapf(<<"cannot parse func", lexToken(l)>>, r)
             ELSE r)
    ELSE Errorf(l, <<"unknown stats func", lexToken(l)>>)

\* &filterNoop{}: it clears no bit (no column is named "", and a missing
\* column reads as "")
filterNoop == PhraseFilter("", "")

\* parseFilter(lex): `field:phrase`, or `phrase` for the _msg field
parseFilter(l) ==
    Bind(getCompoundToken(l), LAMBDA r :
        IF r.err # <<>> THEN r
        ELSE IF ~isKeyword(r.lex, {":"})
        THEN Ok(r.lex, PhraseFilter("_msg", r.val))
        ELSE Bind(getCompoundToken(nextToken(r.lex)), LAMBDA p :
                 IF p.err # <<>> THEN p
                 ELSE Ok(p.lex, PhraseFilter(getCanonicalColumnName(r.val), p.val))))

parseIfFilter(l) ==
    IF ~isKeyword(l, {"if"})
    THEN Errorf(l, <<"unexpected keyword; expecting 'if'", lexToken(l)>>)
    ELSE IF ~isKeyword(nextToken(l), {"("})
    THEN Errorf(nextToken(l), <<"unexpected token after 'if'; expecting '('",
                                lexToken(nextToken(l))>>)
    ELSE IF isKeyword(nextToken(nextToken(l)), {")"})
    THEN Ok(nextToken(nextToken(nextToken(l))), filterNoop)
    ELSE Bind(parseFilter(nextToken(nextToken(l))), LAMBDA f :
             IF f.err # <<>> THEN Wrapf(<<"cannot parse 'if' filter">>, f)
             ELSE IF ~isKeyword(f.lex, {")"})
             THEN Errorf(f.lex, <<"unexpected token after 'if' filter; expecting ')'",
                                  lexToken(f.lex)>>)
             ELSE Ok(nextToken(f.lex), f.val))

parseResultName(l) ==
    parseFieldName(IF isKeyword(l, {"as"}) THEN nextToken(l) ELSE l)

\* the strings tryParseFloat64, tryParseDuration, tryParseBytes and
\* tryParseIPv4Mask accept, among the literals of the model
FloatLiterals == {"10", "1.5", "-10"}
DurationLiterals == {"1h", "1.5s", "-1h"}
BytesLiterals == {"1.5KiB", "-1.5KiB"}
IPv4MaskLiterals == {"/24"}

NamedBucketSizes ==
    {"nanosecond", "microsecond", "millisecond", "second", "minute", "hour", "day",
     "week"}

\* an offset parser that takes the named units a bucket size may be
tryParseBucketOffsetNamed(s) ==
    \/ s \in NamedBucketSizes
    \/ s \in FloatLiterals \cup DurationLiterals \cup BytesLiterals

tryParseBucketOffset(s) ==
    s \in FloatLiterals \cup DurationLiterals \cup BytesLiterals

tryParseBucketSize(s) ==
    \/ s \in NamedBucketSizes
    \/ s \in FloatLiterals \cup DurationLiterals \cup BytesLiterals
    \/ s \in IPv4MaskLiterals

\* the bucket size and the bucket offset of one by-field, when a ":" follows
\* its name
parseBucket(l, fieldName) ==
    IF ~isKeyword(l, {":"}) THEN Ok(l, byStatsField(fieldName))
    ELSE LET l1 == nextToken(l)
             slash == lexToken(l1) = "/"
             bucketSizeStr == IF slash THEN "/" \o lexToken(nextToken(l1))
                              ELSE lexToken(l1)
             l2 == IF slash THEN nextToken(nextToken(l1)) ELSE nextToken(l1)
             l3 == nextToken(l2)
             minus == lexToken(l3) = "-"
             bucketOffsetStr == IF minus THEN "-" \o lexToken(nextToken(l3))
                                ELSE lexToken(l3)
             l4 == IF minus THEN nextToken(nextToken(l3)) ELSE nextToken(l3)
         IN  IF bucketSizeStr \notin {"year", "month"} /\ ~tryParseBucketSize(bucketSizeStr)
             THEN Errorf(l2, <<"cannot parse bucket size", fieldName, bucketSizeStr>>)
             ELSE IF ~isKeyword(l2, {"offset"})
             THEN Ok(l2, [name |-> fieldName, bucketSizeStr |-> bucketSizeStr,
                          bucketOffsetStr |-> ""])
             ELSE IF ~tryParseBucketOffset(bucketOffsetStr)
             THEN Errorf(l4, <<"cannot parse bucket offset", fieldName, bucketOffsetStr>>)
             ELSE Ok(l4, [name |-> fieldName, bucketSizeStr |-> bucketSizeStr,
                          bucketOffsetStr |-> bucketOffsetStr])

RECURSIVE byStatsFieldsLoop(_, _)
\* the loop of parseByStatsFields; l is the lexer before lex.nextToken()
byStatsFieldsLoop(l, bfs) ==
    Bind(nextToken(l), LAMBDA l1 :
        IF isKeyword(l1, {")"}) THEN Ok(nextToken(l1), bfs)
        ELSE Bind(getCompoundToken(l1), LAMBDA r :
                 IF r.err # <<>> THEN Wrapf(<<"cannot parse field name">>, r)
                 ELSE Bind(parseBucket(r.lex, getCanonicalColumnName(r.val)), LAMBDA b :
                          IF b.err # <<>> THEN b
                          ELSE IF isKeyword(b.lex, {")"})
                          THEN Ok(nextToken(b.lex), Append(bfs, b.val))
                          ELSE IF isKeyword(b.lex, {","})
                          THEN byStatsFieldsLoop(b.lex, Append(bfs, b.val))
                          ELSE Errorf(b.lex, <<"unexpected token; expecting ',' or ')'",
                                               lexToken(b.lex)>>))))

parseByStatsFields(l) ==
    IF ~isKeyword(l, {"("}) THEN Errorf(l, <<"missing (">>)
    ELSE byStatsFieldsLoop(l, <<>>)

RECURSIVE statsFuncsLoop(_, _)
\* the loop `for { ... }` of parsePipeStats
statsFuncsLoop(l, funcs) ==
    Bind(parseStatsFunc(l), LAMBDA sf :
        IF sf.err # <<>> THEN sf
        ELSE Bind(IF isKeyword(sf.lex, {"if"}) THEN parseIfFilter(sf.lex)
                  ELSE Ok(sf.lex, NoFilter), LAMBDA iff :
            IF iff.err # <<>>
            THEN Wrapf(<<"cannot parse 'if' filter for", sf.val.name>>, iff)
            ELSE Bind(parseResultName(iff.lex), LAMBDA rn :
                IF rn.err # <<>>
                THEN Wrapf(<<"cannot parse result name for", sf.val.name>>, rn)
                ELSE Bind(Append(funcs, parsePipeStatsFunc(sf.val, iff.val, rn.val)),
                          LAMBDA fs :
                    IF isKeyword(rn.lex, {"|", ")", ""}) THEN Ok(rn.lex, fs)
                    ELSE IF ~isKeyword(rn.lex, {","})
                    THEN Errorf(rn.lex, <<"unexpected token; want ',', '|' or ')'",
                                          lexToken(rn.lex)>>)
                    ELSE statsFuncsLoop(nextToken(rn.lex), fs)))))

\* what parsePipeStats returns: (&ps, nil) or (nil, err)
Parsed(l, plan) == [nil |-> FALSE, err |-> <<>>, lex |-> l, ps |-> plan]

NotParsedErr(l, err) ==
    [nil |-> TRUE, err |-> err, lex |-> l, ps |-> [byFields |-> <<>>, funcs |-> <<>>]]

\* the optional by clause of parsePipeStats; l is the lexer after `stats`
parseByClause(l) ==
    IF isKeyword(l, {"by", "("})
    THEN parseByStatsFields(IF isKeyword(l, {"by"}) THEN nextToken(l) ELSE l)
    ELSE Ok(l, <<>>)

\* a parser that takes an empty list of functions for a plan
parsePipeStatsNoFuncs(l) ==
    IF ~isKeyword(l, {"stats"}) THEN NotParsedErr(l, <<"expecting 'stats'", lexToken(l)>>)
    ELSE Bind(parseByClause(nextToken(l)), LAMBDA by :
        IF by.err # <<>>
        THEN NotParsedErr(by.lex, <<"cannot parse 'by' clause">> \o by.err)
        ELSE Bind(IF isKeyword(by.lex, {"|", ")", ""}) THEN Ok(by.lex, <<>>)
                  ELSE statsFuncsLoop(by.lex, <<>>), LAMBDA fl :
                 IF fl.err # <<>> THEN NotParsedErr(fl.lex, fl.err)
                 ELSE Parsed(fl.lex, [byFields |-> by.val, funcs |-> fl.val])))

parsePipeStats(l) ==
    IF ~isKeyword(l, {"stats"}) THEN NotParsedErr(l, <<"expecting 'stats'", lexToken(l)>>)
    ELSE Bind(parseByClause(nextToken(l)), LAMBDA by :
        IF by.err # <<>>
        THEN NotParsedErr(by.lex, <<"cannot parse 'by' clause">> \o by.err)
        ELSE Bind(statsFuncsLoop(by.lex, <<>>), LAMBDA fl :
                 IF fl.err # <<>> THEN NotParsedErr(fl.lex, fl.err)
                 ELSE Parsed(fl.lex, [byFields |-> by.val, funcs |-> fl.val])))

RECURSIVE JoinTokensNoSeparator(_)
\* a join that leaves out the separator
JoinTokensNoSeparator(a) ==
    IF Len(a) = 0 THEN <<>>
    ELSE a[1] \o JoinTokensNoSeparator(Tail(a))

RECURSIVE JoinTokens(_)
\* strings.Join(a, ", "), as tokens
JoinTokens(a) ==
    IF Len(a) = 0 THEN <<>>
    ELSE IF Len(a) = 1 THEN a[1]
    ELSE a[1] \o <<",">> \o JoinTokens(Tail(a))

\* the tokens the lexer reads from a bucket size or a bucket offset: `/` and
\* `-` are tokens of their own
lexTokens(str) ==
    IF str = "/24" THEN <<"/", "24">>
    ELSE IF str = "-10" THEN <<"-", "10">>
    ELSE IF str = "-1h" THEN <<"-", "1h">>
    ELSE IF str = "-1.5KiB" THEN <<"-", "1.5KiB">>
    ELSE <<str>>

\* bf.String(), as tokens
byStatsFieldString(bf) ==
    <<bf.name>> \o
    (IF bf.bucketSizeStr = "" THEN <<>>
     ELSE <<":">> \o lexTokens(bf.bucketSizeStr) \o
          (IF bf.bucketOffsetStr = "" THEN <<>>
           ELSE <<"offset">> \o lexTokens(bf.bucketOffsetStr)))

\* f.f.String(): the name and the fields in parens, `*` for no field
statsFuncString(sf) ==
    <<sf.name, "(">> \o
    (IF Len(sf.fields) = 0 THEN <<"*">>
     ELSE JoinTokens([i \in 1..Len(sf.fields) |-> <<sf.fields[i]>>])) \o <<")">>

\* iff.String()
filterString(iff) ==
    IF iff = filterNoop THEN <<>> ELSE <<iff.field, ":", iff.phrase>>

\* ps.String(), as the tokens of the string; it panics on a plan without
\* functions
pipeStatsString(plan) ==
    IF Len(plan.funcs) = 0 THEN [panic |-> TRUE, s |-> <<>>]
    ELSE [panic |-> FALSE,
          s |-> <<"stats">> \o
                (IF Len(plan.byFields) = 0 THEN <<>>
                 ELSE <<"by", "(">> \o
                      JoinTokens([i \in 1..Len(plan.byFields) |->
                                     byStatsFieldString(plan.byFields[i])]) \o <<")">>) \o
                JoinTokens([i \in 1..Len(plan.funcs) |->
                    LET f == plan.funcs[i]
                    IN  statsFuncString(f.f) \o
                        (IF f.iff.set THEN <<"if", "(">> \o filterString(f.iff) \o <<")">>
                         ELSE <<>>) \o
                        <<"as", f.resultName>>])]

-----------------------------------------------------------------------------
(* The parser on its own: a query is `stats`, a by clause, a function with  *)
(* its arguments, filter and result name, more functions, and the start of  *)
(* the next pipe; each part is drawn from well-formed and malformed forms.  *)

ByParts ==
    {<<>>,
     <<"by", "(", "level", ")">>,
     <<"(", "level", ",", "host", ")">>,
     <<"by", "(", "_time", ":", "1h", "offset", "-", "1h", ")">>,
     <<"by", "(", "ip", ":", "/", "24", ",", "level", ")">>,
     <<"by", "(", "level", ":", "x", ")">>,
     <<"(", "size", ":", "week", "offset", "1.5KiB", ")">>,
     <<"by", "(", "level">>}

FuncNames == StatsFuncKeywords \cup {"row_any", "foo"}

ArgParts == {<<"(", ")">>, <<"(", "a", ",", "b", ")">>, <<"(", ",", ")">>}

IfParts ==
    {<<>>,
     <<"if", "(", "status", ":", "error", ")">>,
     <<"if", "(", ")">>,
     <<"if", "status">>}

NameParts == {<<"as", "x">>, <<"x">>, <<>>}

\* every name with plain arguments; two names with every form of arguments
\* and filter
FuncParts ==
    {<<n, "(", ")">> \o r : n \in FuncNames, r \in NameParts}
        \cup {<<n>> \o a \o i \o r :
                 n \in {"count", "row_any"}, a \in ArgParts, i \in IfParts, r \in NameParts}
        \cup {<<>>}

MoreFuncs ==
    {<<>>,
     <<",", "count", "(", ")", "as", "x">>,
     <<",", "sum", "(", "a", ")", "y">>,
     <<",", "row_any", "(", ")", "as", "y">>,
     <<",">>,
     <<"count", "(", ")", "y">>}

NextPipes == {<<>>, <<"|", "limit">>}

Queries ==
    {<<"stats">> \o b \o f \o m \o p :
        b \in ByParts, f \in FuncParts, m \in MoreFuncs, p \in NextPipes}
        \cup {<<>>, <<"count", "(", ")", "as", "x">>}

\* the forms of a bucket offset: a number, a duration, a byte size, an IPv4
\* mask, each with and without `-`, and named units
OffsetParts ==
    {<<"10">>, <<"1.5">>, <<"1.5s">>, <<"1.5KiB">>, <<"/", "24">>,
     <<"-", "10">>, <<"-", "1h">>, <<"-", "1.5KiB">>, <<"-", "/", "24">>,
     <<"nanosecond">>, <<"hour">>, <<"week">>, <<"month">>, <<"year">>}

\* stats by (f:10 offset <offset>) count() as x
OffsetQuery(off) ==
    <<"stats", "by", "(", "f", ":", "10", "offset">> \o off
        \o <<")", "count", "(", ")", "as", "x">>

OffsetQueries == {OffsetQuery(off) : off \in OffsetParts}

NoFunc == [name |-> "", fields |-> <<>>]

ParseInit ==
    LET psp == newPipeProcessor(PlanAny, 1, 10485760)
    IN  /\ workersCount = 1
        /\ ps = PlanAny
        /\ maxStateSize = psp.maxStateSize
        /\ stateSizeBudget = psp.maxStateSize
        /\ shards = psp.shards
        /\ pc = <<"idle">>
        /\ pending = <<[br |-> <<>>, isConst |-> FALSE]>>
        /\ writes = 0
        /\ dropped = 0
        /\ cancelCalls = 0
        /\ stopClosed = FALSE
        /\ flushState = "none"
        /\ out = <<>>
        /\ single = EmptyMap
        /\ seen = [r \in AllRows |-> 0]
        /\ shardBefore = psp.shards[1]
        /\ shardBlock = NoBlock
        /\ lex \in Queries \cup OffsetQueries
        /\ parsed = NotParsed

\* parsePipeStats(lex) on a lexer at the start of the query
ParsePipeStats ==
    /\ parsed.op = ""
    /\ \E r \in {parsePipeStats(lex)} :
           /\ lex' = r.lex
           /\ parsed' = [op |-> "parsePipeStats", query |-> lex, nil |-> r.nil,
                         err |-> r.err, ps |-> r.ps, f |-> NoFunc]
    /\ UNCHANGED <<workersCount, ps, maxStateSize, stateSizeBudget, shards, pc, pending,
                   writes, dropped, cancelCalls, stopClosed, flushState, out, single,
                   seen, shardBefore, shardBlock>>

\* parseStatsFunc(lex) on a lexer that has consumed n tokens of the query
ParseStatsFunc ==
    /\ parsed.op = ""
    /\ \E n \in 0..Len(lex) :
        \E l \in {SubSeq(lex, n + 1, Len(lex))} : \E r \in {parseStatsFunc(l)} :
            /\ lex' = r.lex
            /\ parsed' = [op |-> "parseStatsFunc", query |-> l, nil |-> r.err # <<>>,
                          err |-> r.err, ps |-> NotParsed.ps,
                          f |-> IF r.err = <<>> THEN r.val ELSE NoFunc]
    /\ UNCHANGED <<workersCount, ps, maxStateSize, stateSizeBudget, shards, pc, pending,
                   writes, dropped, cancelCalls, stopClosed, flushState, out, single,
                   seen, shardBefore, shardBlock>>

\* ps.String() of a parsed plan, given to parsePipeStats again
Reparse ==
    /\ parsed.op = "parsePipeStats"
    /\ ~parsed.nil
    /\ \E str \in {pipeStatsString(parsed.ps).s} : \E r \in {parsePipeStats(str)} :
           /\ lex' = r.lex
           /\ parsed' = [op |-> "reparse", query |-> str, nil |-> r.nil,
                         err |-> r.err, ps |-> r.ps, f |-> NoFunc]
    /\ UNCHANGED <<workersCount, ps, maxStateSize, stateSizeBudget, shards, pc, pending,
                   writes, dropped, cancelCalls, stopClosed, flushState, out, single,
                   seen, shardBefore, shardBlock>>

ParseNext == ParsePipeStats \/ ParseStatsFunc \/ Reparse

ParseSpec == ParseInit /\ [][ParseNext]_vars

-----------------------------------------------------------------------------
(* Reading the output *)

\* the rows of the blocks written to ppBase, in order
RECURSIVE FlattenRows(_)
FlattenRows(blocks) ==
    IF Len(blocks) = 0 THEN <<>> ELSE Head(blocks).rows \o FlattenRows(Tail(blocks))

\* the by-field values of an output row, and the value of its i-th function
RowKey(row) == SubSeq(row, 1, Len(ps.byFields))
RowFunc(row, i) == row[Len(ps.byFields) + i]

KeyValues(key) == unmarshalKey(key).values

\* the summed len(v) of the values of an output row, and of a sequence of rows
RowLen(row) ==
    SumSeq([i \in 1..Len(row) |->
               IF i <= Len(ps.byFields) THEN StrLen(row[i])
               ELSE finalizedLen(ps.funcs[i - Len(ps.byFields)].f, row[i])])

RowsBytes(rows) == SumSeq([i \in 1..Len(rows) |-> RowLen(rows[i])])

\* every key held by some shard
ShardKeys(shs) == UNION {DOMAIN shs[w].m : w \in 1..Len(shs)}

Min(S) == CHOOSE x \in S : \A y \in S : x <= y

\* what function i of the group of key k holds after the shards are merged:
\* counts add up, row_any keeps the row of the first shard that captured one
MergedValue(shs, k, i) ==
    LET f == ps.funcs[i].f
        holders == {w \in 1..Len(shs) : k \in DOMAIN shs[w].m}
        captured == {w \in holders : shs[w].m[k].sfps[i].captured}
    IN  IF f.name = "count"
        THEN ToString(SumSeq([w \in 1..Len(shs) |->
                 IF w \in holders THEN shs[w].m[k].sfps[i].rowsCount ELSE 0]))
        ELSE IF captured = {} THEN <<>>
        ELSE shs[Min(captured)].m[k].sfps[i].fields

\* the values of the functions of a group that saw no row
NoInputValues ==
    [i \in 1..Len(ps.funcs) |-> finalizeStats(ps.funcs[i].f, newStatsProcessor(ps.funcs[i].f))]

\* this step is a flush() that wrote every group
FlushedOk == flushState = "none" /\ flushState' = "ok"

-----------------------------------------------------------------------------
C2_ScenarioRows ==
    (/\ ps = PlanErrs
     /\ flushState = "ok"
     /\ writes = 1
     /\ seen = [r \in AllRows |-> IF r \in SeqToSet(ScenarioBlock) THEN 1 ELSE 0]) =>
        SeqToSet(FlattenRows(out)) = {<<"info", "1", "2">>, <<"warn", "1", "1">>}

(* C3: once a writeBlock call has dropped its block for lack of budget,    *)
(* flush() returns the budget error and writes no block to ppBase.          *)
C3_DropThenError ==
    (dropped > 0 /\ flushState # "none") => (flushState = "error" /\ out = <<>>)

C3_Witness == dropped > 0 /\ flushState = "error"

(* C4, as claimed: without by-fields and without any non-empty block        *)
(* written, flush() with a positive budget and an open stopCh completes     *)
(* and emits exactly one row holding the no-input values, for every         *)
(* number of workers.                                                       *)
C4_ZeroRowsGroup ==
    (/\ flushState # "none"
     /\ Len(ps.byFields) = 0
     /\ DOMAIN single = {}
     /\ dropped = 0
     /\ stateSizeBudget > 0
     /\ ~stopClosed) =>
        (flushState = "ok" /\ out = <<ResultBlock(ps, <<NoInputValues>>)>>)

(* C5: cancel() is invoked at most once, by the borrow attempt whose        *)
(* decrement takes the global budget from >= 0 to < 0.                      *)
C5_CancelOnce ==
    [][cancelCalls' # cancelCalls =>
        /\ cancelCalls = 0
        /\ cancelCalls' = 1
        /\ stateSizeBudget >= 0
        /\ stateSizeBudget' < 0]_vars

\* two workers had a borrow attempt fail, and one cancel() was made
C5_Witness == cancelCalls = 1 /\ dropped >= 2 /\ workersCount >= 2

C7_DropAggregatesNothing ==
    [][/\ (stateSizeBudget' # stateSizeBudget /\ stateSizeBudget' < 0) =>
            /\ shards' = shards
            /\ single' = single
            /\ seen' = seen
       /\ \A w \in Workers :
            pc'[w] = "borrow" => shards'[w].m = shards[w].m]_vars

\* a call was dropped on a shard that holds groups
C7_Witness ==
    /\ dropped > 0
    /\ \E w \in Workers :
        /\ pc[w] = "idle"
        /\ shards[w].stateSizeBudget < 0
        /\ DOMAIN shards[w].m # {}

(* C8, as claimed: a flush() that starts with stopCh closed and a positive  *)
(* budget and returns, returns nil and has written no block to ppBase,      *)
(* whatever the plan and the shard maps hold.                               *)
C8_StoppedFlushWritesNothing ==
    [][(flushState = "none" /\ flushState' \notin {"none", "panic"} /\ stopClosed
            /\ stateSizeBudget > 0) =>
        (flushState' \in {"ok", "stopped"} /\ out' = <<>>)]_vars

(* C8, amended: a flush() that starts with stopCh closed and a positive     *)
(* budget emits no row.  When some shard holds a group, or the pipe has no  *)
(* by-fields and at least two workers, the first loop iteration sees the    *)
(* closed stopCh and flush() returns nil without any ppBase.writeBlock      *)
(* call.  When every map is empty and the pipe has by-fields, no loop       *)
(* iteration runs and flush() returns nil after writing one block of zero   *)
(* rows.  When every map is empty, the pipe has no by-fields and there is   *)
(* one worker, flush() indexes an empty slice and panics.                   *)
C8_StoppedFlushEmitsNoRow ==
    [][(flushState = "none" /\ flushState' # "none" /\ stopClosed
            /\ stateSizeBudget > 0) =>
        /\ FlattenRows(out') = <<>>
        /\ IF ShardKeys(shards) # {} \/ (Len(ps.byFields) = 0 /\ workersCount >= 2)
           THEN flushState' = "stopped" /\ out' = <<>>
           ELSE IF Len(ps.byFields) > 0
           THEN flushState' = "ok" /\ out' = <<ResultBlock(ps, <<>>)>>
           ELSE flushState' = "panic" /\ out' = <<>>]_vars

\* stopCh was closed, then flush() ran over empty maps and wrote a block
C8_Witness ==
    /\ stopClosed
    /\ flushState = "ok"
    /\ stateSizeBudget > 0
    /\ out = <<ResultBlock(ps, <<>>)>>

(* C9, as claimed: a flush() that passes the budget check and is not        *)
(* stopped emits exactly the keys some shard holds, each once, and the row  *)
(* of a key holds the merge of the states the shards hold for it.           *)
C9_KeysAreShardKeys ==
    [][(FlushedOk /\ ~stopClosed') =>
        LET rows == FlattenRows(out')
        IN  /\ Len(rows) = Cardinality(ShardKeys(shards))
            /\ \A k \in ShardKeys(shards) : \E j \in 1..Len(rows) :
                /\ RowKey(rows[j]) = KeyValues(k)
                /\ \A i \in 1..Len(ps.funcs) :
                    RowFunc(rows[j], i) = MergedValue(shards, k, i)]_vars

(* C9, amended: a flush() that passes the budget check, is not stopped and  *)
(* completes emits exactly the keys some shard holds, each once, and the    *)
(* row of a key holds the merge, in shard order, of the states the shards   *)
(* hold for it; except that, when the pipe has no by-fields and no shard    *)
(* holds a group, it emits one row for a group created at flush time,       *)
(* whose key no shard held.                                                 *)
C9_KeysAreShardKeysOrSynthesised ==
    [][(FlushedOk /\ ~stopClosed') =>
        LET rows == FlattenRows(out')
        IN  IF Len(ps.byFields) = 0 /\ ShardKeys(shards) = {}
            THEN rows = <<NoInputValues>>
            ELSE /\ Len(rows) = Cardinality(ShardKeys(shards))
                 /\ \A k \in ShardKeys(shards) : \E j \in 1..Len(rows) :
                     /\ RowKey(rows[j]) = KeyValues(k)
                     /\ \A i \in 1..Len(ps.funcs) :
                         RowFunc(rows[j], i) = MergedValue(shards, k, i)]_vars

\* flush() merged a group of the second shard into the group the first shard
\* held for the same key, and transplanted another one
C9_Witness ==
    /\ flushState = "ok"
    /\ ~stopClosed
    /\ workersCount >= 2
    /\ \E k \in DOMAIN shards[2].m :
        /\ k \in DOMAIN shards[1].m
        /\ shards[1].m[k] # shards[2].m[k]
    /\ Len(FlattenRows(out)) = Cardinality(DOMAIN shards[1].m)

C11_BlockSchema ==
    \A b \in 1..Len(out) :
        /\ Len(out[b].names) = Len(ps.byFields) + Len(ps.funcs)
        /\ \A i \in 1..Len(ps.byFields) : out[b].names[i] = ps.byFields[i].name
        /\ \A i \in 1..Len(ps.funcs) :
               out[b].names[Len(ps.byFields) + i] = ps.funcs[i].resultName
        /\ \A j \in 1..Len(out[b].rows) : Len(out[b].rows[j]) = Len(out[b].names)

\* flush() wrote a block of several rows for a plan with a by-field
C11_Witness ==
    /\ flushState = "ok"
    /\ Len(ps.byFields) >= 1
    /\ \E b \in 1..Len(out) : Len(out[b].rows) >= 2

\* the by-field values of a row, read from the row itself
ByTuple(row) ==
    [k \in 1..Len(ps.byFields) |->
        IF ps.byFields[k].name \in DOMAIN row THEN row[ps.byFields[k].name] ELSE ""]

\* the by-field values of the rows of a block
ByTuples(br) == {ByTuple(br[i]) : i \in 1..Len(br)}

\* the values the keys of a map decode to
DecodedKeys(m) == {unmarshalKey(k).values : k \in DOMAIN m}

(* C12: every key a shard stores decodes to exactly len(byFields) values,   *)
(* the by-field values of the rows it was encoded from (empty strings and   *)
(* the empty key included), distinct keys decode to distinct values, and    *)
(* flush() never panics on a key and emits the decoded values.              *)
C12_KeyRoundTrip ==
    /\ \A k \in DOMAIN shards[1].m :
        /\ unmarshalKey(k).ok
        /\ Len(unmarshalKey(k).values) = Len(ps.byFields)
    /\ DecodedKeys(shards[1].m) = DecodedKeys(shardBefore.m) \cup ByTuples(shardBlock.br)
    /\ Cardinality(DecodedKeys(shards[1].m)) = Cardinality(DOMAIN shards[1].m)
    /\ flushState # "panic"
    /\ flushState = "ok" =>
        /\ {RowKey(FlattenRows(out)[j]) : j \in 1..Len(FlattenRows(out))}
               = DecodedKeys(shards[1].m)
        /\ Len(FlattenRows(out)) = Cardinality(DOMAIN shards[1].m)

\* flush() emitted a key of two empty values and a key whose first value is empty
C12_Witness ==
    /\ flushState = "ok"
    /\ ps = ShardPlanMissing
    /\ \E j \in 1..Len(FlattenRows(out)) : RowKey(FlattenRows(out)[j]) = <<"", "">>
    /\ \E j \in 1..Len(FlattenRows(out)) : RowKey(FlattenRows(out)[j]) = <<"", "a">>

\* the rows of br whose by-field values are the ones key k encodes
GroupRows(br, k) ==
    SelectSeq([j \in 1..Len(br) |-> j],
              LAMBDA j : ByTuple(br[j]) = unmarshalKey(k).values)

\* the fields row_any() captures from a row
RowFields(row) ==
    [c \in 1..Len(ColumnOrder) |-> [Name |-> ColumnOrder[c], Value |-> row[ColumnOrder[c]]]]

\* no function of the plan has an if (...) filter
Unfiltered == \A i \in 1..Len(ps.funcs) : ~ps.funcs[i].iff.set

(* C13: for unfiltered functions, whatever path shard.writeBlock takes,     *)
(* every row of the block updates the group whose key encodes its by-field  *)
(* values: each count grows by the number of rows of its group, a row_any   *)
(* that had no row captures the first row of its group, and rows with       *)
(* equal by-field values land in one group even when they are not adjacent. *)
C13_PathsAgreeWithPerRowLookup ==
    (Unfiltered /\ writes >= 1) =>
        /\ DecodedKeys(shards[1].m) = DecodedKeys(shardBefore.m) \cup ByTuples(shardBlock.br)
        /\ \A k \in DOMAIN shards[1].m : \A i \in 1..Len(ps.funcs) :
            LET old == IF k \in DOMAIN shardBefore.m THEN shardBefore.m[k].sfps[i]
                       ELSE newStatsProcessor(ps.funcs[i].f)
                new == shards[1].m[k].sfps[i]
                rows == GroupRows(shardBlock.br, k)
            IN  IF ps.funcs[i].f.name = "count"
                THEN new.rowsCount = old.rowsCount + Len(rows)
                ELSE IF old.captured \/ Len(rows) = 0 THEN new = old
                ELSE /\ new.captured
                     /\ new.fields = RowFields(shardBlock.br[rows[1]])

\* a block of two by-fields whose first and third rows share a group that the
\* second row is not in
C13_Witness ==
    /\ Len(ps.byFields) = 2
    /\ Len(shardBlock.br) = 3
    /\ ByTuple(shardBlock.br[1]) = ByTuple(shardBlock.br[3])
    /\ ByTuple(shardBlock.br[1]) # ByTuple(shardBlock.br[2])
    /\ Cardinality(DOMAIN shards[1].m) = 2
    /\ shardBefore.m = EmptyMap

\* the bytes the fields captured by a row_any hold
FieldsBytes(fields) ==
    SumSeq([i \in 1..Len(fields) |-> StrLen(fields[i].Name) + StrLen(fields[i].Value)])

\* what a group costs: its processors, its key, the fixed overhead, and the
\* bytes its aggregators have taken since
GroupSize(m, k) ==
    SumSeq([i \in 1..Len(ps.funcs) |-> newStatsProcessorSize(ps.funcs[i].f)])
    + BytesLen(k) + sizeofString + sizeofPointer + sizeofInterface * Len(ps.funcs)
    + SumSeq([i \in 1..Len(ps.funcs) |->
                 IF ps.funcs[i].f.name = "row_any"
                 THEN FieldsBytes(m[k].sfps[i].fields) ELSE 0])

RECURSIVE StateSizeOf(_, _)
StateSizeOf(m, keys) ==
    IF keys = {} THEN 0
    ELSE LET k == CHOOSE x \in keys : TRUE
         IN  GroupSize(m, k) + StateSizeOf(m, keys \ {k})

StateSize(m) == StateSizeOf(m, DOMAIN m)

(* C14: a shard.writeBlock call lowers the local budget of the shard by     *)
(* exactly what the state of the shard grew by: the construction cost of    *)
(* each group the call created and every size change its aggregator         *)
(* updates returned, on every path.                                         *)
C14_BudgetChargesState ==
    writes >= 1 =>
        shardBefore.stateSizeBudget - shards[1].stateSizeBudget
            = StateSize(shards[1].m) - StateSize(shardBefore.m)

\* a call created a group, with a row_any that captured a row, next to a
\* group that was there before
C14_Witness ==
    /\ writes = 2
    /\ DOMAIN shardBefore.m # {}
    /\ DOMAIN shards[1].m # DOMAIN shardBefore.m
    /\ Len(ps.byFields) >= 1
    /\ shards[1].stateSizeBudget < shardBefore.stateSizeBudget
    /\ \E i \in 1..Len(ps.funcs) : ps.funcs[i].f.name = "row_any"

(* C15: every iteration of the borrow loop takes one chunk from the global *)
(* budget and waits for nothing.  It either ends the call, dropped with the *)
(* global budget negative or aggregated with a local budget >= 0, or adds   *)
(* one chunk to a local budget that stays negative; so a call that entered  *)
(* the loop with local budget b < 0 leaves it within ceil(-b / chunk)       *)
(* iterations.  A block is aggregated only by a call whose local budget is  *)
(* >= 0 at that point.                                                      *)
C15_WriteBlockTerminates ==
    [][/\ (stateSizeBudget' # stateSizeBudget /\ pc' = pc) =>
            /\ stateSizeBudget' = stateSizeBudget - stateSizeBudgetChunk
            /\ stateSizeBudget' >= 0
            /\ \E w \in Workers :
                /\ pc[w] = "borrow"
                /\ shards'[w].stateSizeBudget
                       = shards[w].stateSizeBudget + stateSizeBudgetChunk
                /\ shards'[w].stateSizeBudget < 0
                /\ shards'[w].m = shards[w].m
                /\ \A v \in Workers \ {w} : shards'[v] = shards[v]
       /\ \A w \in Workers :
            /\ (pc[w] = "borrow" /\ pc'[w] = "idle") =>
                 /\ stateSizeBudget' = stateSizeBudget - stateSizeBudgetChunk
                 /\ \/ /\ dropped' = dropped + 1
                       /\ stateSizeBudget' < 0
                       /\ shards' = shards
                    \/ /\ dropped' = dropped
                       /\ stateSizeBudget' >= 0
                       /\ shards[w].stateSizeBudget + stateSizeBudgetChunk >= 0
                       /\ shards'[w] = shardWriteBlock(ps, [shards[w] EXCEPT
                                           !.stateSizeBudget = @ + stateSizeBudgetChunk],
                                           pending[w].br, pending[w].isConst)
            /\ (pc[w] = "borrow" /\ pc'[w] = "borrow") => shards[w].stateSizeBudget < 0
            /\ (flushState' = "none" /\ shards'[w].m # shards[w].m) =>
                 \/ pc[w] = "idle" /\ shards[w].stateSizeBudget >= 0
                 \/ pc[w] = "borrow"
                      /\ shards[w].stateSizeBudget + stateSizeBudgetChunk >= 0]_vars

\* a call is in its loop after an iteration that left the local budget negative
C15_Witness ==
    \E w \in Workers :
        /\ pc[w] = "borrow"
        /\ shards[w].stateSizeBudget < 0
        /\ shards[w].stateSizeBudget > -stateSizeBudgetChunk

(* C16: a writeBlock call of worker w changes no shard but shard w, and no  *)
(* other shared state than the global budget: a step that is not the flush  *)
(* changes at most one shard, that shard belongs to the worker taking the   *)
(* step (idle before a call that aggregates at once, in its loop before a   *)
(* borrow), and the plan, the limit and the output stay as they were.       *)
C16_WriteBlockFrame ==
    [][flushState' = "none" =>
        /\ Cardinality({w \in Workers : shards'[w] # shards[w]}) <= 1
        /\ \A w \in Workers :
             shards'[w] # shards[w] =>
                \/ /\ writes' = writes + 1
                   /\ pc[w] = "idle"
                   /\ pc' = pc
                   /\ stateSizeBudget' = stateSizeBudget
                \/ /\ writes' = writes
                   /\ pc[w] = "borrow"
                   /\ stateSizeBudget' = stateSizeBudget - stateSizeBudgetChunk
                   /\ \A v \in Workers \ {w} : pc'[v] = pc[v]
        /\ UNCHANGED <<workersCount, ps, maxStateSize, out>>]_vars

\* one worker's shard holds groups while the other worker, whose shard is
\* as constructed, is inside a call
C16_Witness ==
    /\ workersCount = 2
    /\ \E w, v \in Workers :
         /\ w # v
         /\ shards[w].m # <<>>
         /\ pc[w] = "borrow"
         /\ shards[v].m # <<>>
         /\ shards[v].m # shards[w].m

\* the rows of br that the filter selects, in the order of br
SelectedRows(iff, br) ==
    SelectSeq(br, LAMBDA row :
        (IF iff.field \in DOMAIN row THEN row[iff.field] ELSE "") = iff.phrase)

\* the row, restricted to the named columns
ProjectRow(row, fields) ==
    [c \in SeqToSet(fields) \cap DOMAIN row |-> row[c]]

(* C17, as stated: function i is given the source block when it has no      *)
(* filter or the filter selects every row, a block of zero rows when the    *)
(* filter selects none, and otherwise exactly the selected rows in their    *)
(* original order.                                                          *)
C17_SelectedRowsVerbatim ==
    shardBlock # NoBlock =>
        \A i \in 1..Len(ps.funcs) :
            shardBlock.brs[i] =
                IF ps.funcs[i].iff.set
                THEN SelectedRows(ps.funcs[i].iff, shardBlock.br)
                ELSE shardBlock.br

(* C17, amended: function i is given the source block when it has no filter *)
(* or the filter selects every row, a block of zero rows when the filter    *)
(* selects none, and otherwise the selected rows in their original order,   *)
(* each restricted to the columns of neededFieldsForFunc (the fields the    *)
(* filter reads); the block given to function i is the one it would be      *)
(* given if it were the only function of the plan.                          *)
C17_FilteredBlocks ==
    shardBlock # NoBlock =>
        \A i \in 1..Len(ps.funcs) :
            LET f == ps.funcs[i]
                br == shardBlock.br
                sel == IF f.iff.set THEN SelectedRows(f.iff, br) ELSE br
            IN  /\ shardBlock.brs[i] =
                       IF Len(sel) = Len(br) THEN br
                       ELSE IF Len(sel) = 0 THEN <<>>
                       ELSE [j \in 1..Len(sel) |-> ProjectRow(sel[j], f.neededFieldsForFunc)]
                /\ shardBlock.brs[i] = applyPerFunctionFilters(<<f>>, br)[1]

\* one block, three functions: a filter that selects some of the rows, a
\* filter that selects none, and no filter
C17_Witness ==
    /\ ps = ShardPlanFilters
    /\ shardBlock # NoBlock
    /\ Len(shardBlock.brs[1]) > 0
    /\ Len(shardBlock.brs[1]) < Len(shardBlock.br)
    /\ shardBlock.brs[1] # SelectedRows(ps.funcs[1].iff, shardBlock.br)
    /\ shardBlock.brs[2] = <<>>
    /\ shardBlock.brs[3] = shardBlock.br

\* the aggregator names of the table of aggregators
ListedFuncNames ==
    {"count", "count_empty", "count_uniq", "sum", "sum_len", "avg", "min", "max",
     "quantile", "median", "uniq_values", "values", "row_any"}

(* C18, as claimed: parseStatsFunc takes every listed aggregator name for a *)
(* function (it may still reject its arguments) and answers `unknown stats  *)
(* func` for every other token.                                             *)
C18_ListedNamesAccepted ==
    parsed.op = "parseStatsFunc" =>
        LET token == lexToken(parsed.query)
        IN  IF token \in ListedFuncNames
            THEN parsed.err = <<>> \/ Head(parsed.err) # "unknown stats func"
            ELSE parsed.err = <<"unknown stats func", token>>

\* the result names of a plan are pairwise distinct
UniqueResultNames(plan) ==
    \A i, j \in 1..Len(plan.funcs) :
        i # j => plan.funcs[i].resultName # plan.funcs[j].resultName

(* C19, as claimed: a plan parsePipeStats returns without error has          *)
(* pairwise distinct result names.                                           *)
C19_ResultNamesUnique ==
    (parsed.op = "parsePipeStats" /\ parsed.err = <<>>) => UniqueResultNames(parsed.ps)

(* C20: a plan parsePipeStats returns without error has at least one         *)
(* function, so String() does not panic on it; with an error parsePipeStats  *)
(* returns no plan.                                                          *)
C20_ParsedPlanHasFuncs ==
    parsed.op = "parsePipeStats" =>
        IF parsed.err = <<>>
        THEN /\ ~parsed.nil
             /\ Len(parsed.ps.funcs) >= 1
             /\ ~pipeStatsString(parsed.ps).panic
        ELSE /\ parsed.nil
             /\ parsed.ps = NotParsed.ps

\* a query with a by clause and two functions, parsed up to the next pipe
C20_Witness ==
    /\ parsed.op = "parsePipeStats"
    /\ parsed.err = <<>>
    /\ Len(parsed.ps.byFields) = 2
    /\ Len(parsed.ps.funcs) = 2
    /\ lexToken(lex) = "|"

\* the number of tokens of str equal to token
CountToken(str, token) == Cardinality({i \in 1..Len(str) : str[i] = token})

(* C21: the String() of a plan parsePipeStats accepted parses again, to a   *)
(* plan whose String() is the same text; that text has a by clause only    *)
(* when the plan has by-fields and one `if` per function with a filter.     *)
C21_StringRoundTrip ==
    /\ parsed.op = "reparse" =>
          /\ parsed.err = <<>>
          /\ ~parsed.nil
          /\ lex = <<>>
          /\ pipeStatsString(parsed.ps).s = parsed.query
    /\ (parsed.op = "parsePipeStats" /\ ~parsed.nil) =>
          LET str == pipeStatsString(parsed.ps).s
          IN  /\ CountToken(str, "by") = IF Len(parsed.ps.byFields) = 0 THEN 0 ELSE 1
              /\ CountToken(str, "if") =
                     Cardinality({i \in 1..Len(parsed.ps.funcs) : parsed.ps.funcs[i].iff.set})

\* a plan with a bucketed by-field with an offset and two functions, one of
\* them filtered, printed and parsed again
C21_Witness ==
    /\ parsed.op = "reparse"
    /\ parsed.err = <<>>
    /\ Len(parsed.ps.byFields) >= 1
    /\ parsed.ps.byFields[1].bucketOffsetStr = "-1h"
    /\ Len(parsed.ps.funcs) = 2
    /\ parsed.ps.funcs[1].iff.set
    /\ ~parsed.ps.funcs[2].iff.set

\* the states of the row_any processors of the shards, and a new processor
RowAnyStates ==
    {newStatsProcessor(statsRowAny(<<"*">>))} \cup
    UNION {UNION {{shards[w].m[k].sfps[i] :
                      i \in {j \in 1..Len(ps.funcs) : ps.funcs[j].f.name = "row_any"}} :
                  k \in DOMAIN shards[w].m} :
           w \in Workers}

RowAnyFuncs == {i \in 1..Len(ps.funcs) : ps.funcs[i].f.name = "row_any"}

(* C23, as claimed: in a shard.writeBlock call a row_any processor that has *)
(* captured a row keeps its fields, and a processor that is given a block   *)
(* of zero rows does not capture: it is as before the call, or new and      *)
(* without a captured row.                                                  *)
C23_CapturesFirstRowOnly ==
    (shardBlock # NoBlock /\ flushState = "none") =>
        \A i \in RowAnyFuncs : \A k \in DOMAIN shards[1].m :
            LET sap == shards[1].m[k].sfps[i]
            IN  /\ (k \in DOMAIN shardBefore.m /\ shardBefore.m[k].sfps[i].captured) =>
                      sap = shardBefore.m[k].sfps[i]
                /\ Len(shardBlock.brs[i]) = 0 =>
                      IF k \in DOMAIN shardBefore.m THEN sap = shardBefore.m[k].sfps[i]
                      ELSE ~sap.captured

\* sf.updateNeededFields(neededFields): the fields the function reads; `*`
\* stands for every field, and a count of all rows reads none
statsFuncNeededFields(sf) ==
    IF sf.name = "row_any"
    THEN IF Len(sf.fields) = 0 THEN {"*"} ELSE SeqToSet(sf.fields)
    ELSE IF "*" \in SeqToSet(sf.fields) THEN {} ELSE SeqToSet(sf.fields)

(* C24, as claimed: for every function parsed with an if filter,            *)
(* neededFieldsForFunc holds every field the function itself reads.         *)
C24_NeededFieldsCoverFunc ==
    (parsed.op = "parsePipeStats" /\ ~parsed.nil) =>
        \A i \in 1..Len(parsed.ps.funcs) :
            LET f == parsed.ps.funcs[i]
            IN  f.iff.set =>
                    \/ "*" \in SeqToSet(f.neededFieldsForFunc)
                    \/ statsFuncNeededFields(f.f) \subseteq SeqToSet(f.neededFieldsForFunc)

\* the key a tuple of by-field values is stored under
KeyOf(tuple) ==
    LET F[k \in 0..Len(tuple)] ==
            IF k = 0 THEN <<>> ELSE MarshalBytes(F[k - 1], tuple[k])
    IN  F[Len(tuple)]

\* the functions of the plan that count every row
PlainCounts ==
    {i \in 1..Len(ps.funcs) : ps.funcs[i].f.name = "count" /\ ~ps.funcs[i].iff.set}

(* C25: groups are created lazily and once.  After every shard.writeBlock   *)
(* the map of the shard holds the groups it held before and one group per   *)
(* distinct key of the rows of the block, nothing else; every group has     *)
(* len(funcs) processors; a group that was there before is kept, not        *)
(* rebuilt; and getPipeStatsGroup on a key that is present returns the      *)
(* group and leaves the map and the local budget as they are.               *)
C25_GroupsLazyAndOnce ==
    (shardBlock # NoBlock /\ flushState = "none") =>
        /\ DOMAIN shards[1].m
               = DOMAIN shardBefore.m \cup {KeyOf(t) : t \in ByTuples(shardBlock.br)}
        /\ \A k \in DOMAIN shards[1].m : Len(shards[1].m[k].sfps) = Len(ps.funcs)
        /\ \A k \in DOMAIN shardBefore.m : \A i \in PlainCounts :
               shards[1].m[k].sfps[i].rowsCount
                   = shardBefore.m[k].sfps[i].rowsCount + Len(GroupRows(shardBlock.br, k))
        /\ \A k \in DOMAIN shards[1].m :
               getPipeStatsGroup(ps, shards[1], k) = shards[1]

\* the second block of a shard had rows of a key that was present and rows
\* of a key that was new
C25_Witness ==
    /\ writes = 2
    /\ flushState = "none"
    /\ Len(ps.byFields) >= 1
    /\ PlainCounts # {}
    /\ \E t \in ByTuples(shardBlock.br) : KeyOf(t) \in DOMAIN shardBefore.m
    /\ \E t \in ByTuples(shardBlock.br) : KeyOf(t) \notin DOMAIN shardBefore.m
    /\ Cardinality(DOMAIN shards[1].m) >= 3

(* C26: the key a group is stored under is a copy of the scratch buffer.    *)
(* A shard.writeBlock call that overwrites or truncates keyBuf leaves       *)
(* every key that was in the map in the map, and a group no row of the      *)
(* block belongs to is exactly the group it was.                            *)
C26_StoredKeysOwned ==
    (shardBlock # NoBlock /\ flushState = "none") =>
        \A k \in DOMAIN shardBefore.m :
            /\ k \in DOMAIN shards[1].m
            /\ GroupRows(shardBlock.br, k) = <<>> => shards[1].m[k] = shardBefore.m[k]
            /\ \A i \in PlainCounts :
                   shards[1].m[k].sfps[i].rowsCount >= shardBefore.m[k].sfps[i].rowsCount

\* keyBuf held a stored key, the next block overwrote it with other keys,
\* and no row of that block belongs to the stored key
C26_Witness ==
    /\ writes = 2
    /\ flushState = "none"
    /\ shardBefore.keyBuf \in DOMAIN shardBefore.m
    /\ shards[1].keyBuf # shardBefore.keyBuf
    /\ BytesLen(shardBefore.keyBuf) > 0
    /\ GroupRows(shardBlock.br, shardBefore.keyBuf) = <<>>
    /\ Cardinality(DOMAIN shards[1].m \ DOMAIN shardBefore.m) >= 2

\* the offset tokens of a query of OffsetQueries
OffsetOf(query) == CHOOSE off \in OffsetParts : query = OffsetQuery(off)

\* an offset without its leading `-`
Unsigned(off) == IF Len(off) >= 1 /\ off[1] = "-" THEN Tail(off) ELSE off

\* a plain number, a duration literal or a byte-size literal
ScalarForms == {<<"10">>, <<"1.5">>, <<"1h">>, <<"1.5s">>, <<"1.5KiB">>}

\* the /N form
MaskForms == {<<"/", "24">>}

\* parsePipeStats was applied to a query of OffsetQueries
OffsetParsed == parsed.op = "parsePipeStats" /\ parsed.query \in OffsetQueries

(* C27, as claimed: a bucket offset is accepted when it is a plain number,  *)
(* a duration, a byte size or the /N form, each optionally preceded by `-`, *)
(* and rejected when it is a named unit.                                    *)
C27_OffsetFormsWithMask ==
    OffsetParsed =>
        (~parsed.nil <=> Unsigned(OffsetOf(parsed.query)) \in ScalarForms \cup MaskForms)

(* C27, amended: a bucket offset is accepted exactly when it is a plain     *)
(* number, a duration or a byte size, optionally preceded by `-`; the /N    *)
(* form and every named unit are rejected with `cannot parse bucket         *)
(* offset`, and an accepted offset is stored with its sign.                 *)
C27_OffsetForms ==
    OffsetParsed =>
        LET off == OffsetOf(parsed.query)
        IN  /\ ~parsed.nil <=> Unsigned(off) \in ScalarForms
            /\ parsed.nil => parsed.err[2] = "cannot parse bucket offset"
            /\ ~parsed.nil => lexTokens(parsed.ps.byFields[1].bucketOffsetStr) = off

\* the offset / 24 was rejected: the offset read was the token `/` alone
C27_Witness ==
    /\ OffsetParsed
    /\ OffsetOf(parsed.query) = <<"/", "24">>
    /\ parsed.nil
    /\ parsed.err = <<"cannot parse 'by' clause", "cannot parse bucket offset", "f", "/">>

\* psp.stateSizeBudget.Add(-stateSizeBudgetChunk) calls made so far
BorrowAttempts == (maxStateSize - stateSizeBudget) \div stateSizeBudgetChunk

\* the calls that went on to shard.stateSizeBudget += stateSizeBudgetChunk;
\* every other call dropped its block
SuccessfulBorrows == BorrowAttempts - dropped

\* the budget handed to shards: one chunk each, and the chunks borrowed
HandedToShards == stateSizeBudgetChunk * (workersCount + SuccessfulBorrows)

\* int64(float64(memory.Allowed()) * 0.3), before the chunks of the shards
\* were taken from it
MaxAllowedStateSize == maxStateSize + workersCount * stateSizeBudgetChunk

(* C28, as claimed: the budget handed to shards never exceeds MAX, for      *)
(* every number of workers and every MAX.                                   *)
C28_HandedWithinMaxAlways == HandedToShards <= MaxAllowedStateSize

(* C28, amended: when MAX covers the initial chunks of the shards, the      *)
(* budget handed to shards never exceeds MAX; when it does not, the initial *)
(* chunks alone exceed MAX, no borrow succeeds and nothing more is handed   *)
(* out.                                                                     *)
C28_HandedWithinMax ==
    /\ SuccessfulBorrows >= 0
    /\ maxStateSize >= 0 => HandedToShards <= MaxAllowedStateSize
    /\ maxStateSize < 0 =>
           /\ SuccessfulBorrows = 0
           /\ HandedToShards = workersCount * stateSizeBudgetChunk

\* a borrow succeeded, a later one failed, and what was handed out stayed
\* within MAX
C28_Witness ==
    /\ maxStateSize >= 0
    /\ SuccessfulBorrows >= 1
    /\ dropped >= 1
    /\ HandedToShards + stateSizeBudgetChunk > MaxAllowedStateSize

\* worker w made one attempt to borrow: it left the loop or its shard got a chunk
BorrowAttempt(w) ==
    /\ pc[w] = "borrow"
    /\ pc'[w] = "idle" \/ shards'[w] # shards[w]

(* C29: the global budget never increases.  Every borrow attempt, whether   *)
(* it succeeds or drops the block, lowers it by exactly one chunk; no other *)
(* step, flush() included, changes it; and once it is negative it stays     *)
(* negative.                                                                *)
C29_GlobalBudgetOnlyFalls ==
    [][/\ stateSizeBudget' <= stateSizeBudget
       /\ (\E w \in Workers : BorrowAttempt(w))
              => stateSizeBudget' = stateSizeBudget - stateSizeBudgetChunk
       /\ ~(\E w \in Workers : BorrowAttempt(w)) => stateSizeBudget' = stateSizeBudget
       /\ dropped' # dropped => stateSizeBudget' = stateSizeBudget - stateSizeBudgetChunk
       /\ stateSizeBudget < 0 => stateSizeBudget' < 0]_vars

\* after a borrow that succeeded, two attempts failed, each taking a chunk
\* from a budget that was negative already
C29_Witness ==
    /\ dropped >= 2
    /\ maxStateSize >= stateSizeBudgetChunk
    /\ stateSizeBudget < 0 - stateSizeBudgetChunk
    /\ stateSizeBudget = maxStateSize - stateSizeBudgetChunk * (dropped + SuccessfulBorrows)
    /\ SuccessfulBorrows >= 1

(* C30, as claimed: flush() returns the budget error only when budget       *)
(* exhaustion was noticed during the run: some earlier writeBlock call      *)
(* dropped its block and cancel() was invoked.                              *)
C30_ErrorOnlyAfterDrop ==
    flushState = "error" => (dropped > 0 /\ cancelCalls > 0)

\* a psp.writeBlock call that counted no row and did not enter the borrow loop
ZeroRowsWrite == writes' = writes + 1 /\ seen' = seen /\ pc' = pc

(* C31: psp.writeBlock with a block of zero rows is a no-op.  The call      *)
(* changes neither the global budget, nor any shard (its local budget and   *)
(* its groups), nor the count of cancel() calls, and drops nothing; and a   *)
(* block of zero rows never enters the borrow loop, whatever the local      *)
(* budget of the shard is.                                                  *)
C31_ZeroRowsNoOp ==
    [][/\ ZeroRowsWrite =>
              /\ stateSizeBudget' = stateSizeBudget
              /\ shards' = shards
              /\ cancelCalls' = cancelCalls
              /\ dropped' = dropped
              /\ single' = single
       /\ \A w \in Workers :
              (pc[w] = "idle" /\ pc'[w] = "borrow") => ~noTimestamps(pending'[w].br)]_vars

\* three calls on one worker, one of them with a row whose value left the
\* local budget negative and the others with no row: nothing was borrowed
C31_Witness ==
    /\ workersCount = 1
    /\ writes = 3
    /\ dropped = 0
    /\ cancelCalls = 0
    /\ pc[1] = "idle"
    /\ shards[1].stateSizeBudget < 0
    /\ stateSizeBudget = maxStateSize
    /\ \A r \in AllRows : seen[r] = (IF r = Row("warn", BigValue) THEN 1 ELSE 0)

\* flush() ran in this step
FlushStep == flushState = "none" /\ flushState' # "none"

(* C32: after dst.mergeState(src) of row_any, dst is captured iff dst or    *)
(* src was captured before; a dst that was captured keeps its row and a dst *)
(* that was not takes the row of src; src is not modified.  This holds for  *)
(* every pair of processor states the shards hold, and in the merge of      *)
(* flush(): the groups of the other shards are what they were, and a group  *)
(* of shards[0] merged with the group of the same key holds the row the     *)
(* rule gives.                                                              *)
C32_MergeStateCaptured ==
    [][/\ \A dst, src \in RowAnyStates :
              LET r == rowAnyMergeState(dst, src)
              IN  /\ r.captured = (dst.captured \/ src.captured)
                  /\ dst.captured => r.fields = dst.fields
                  /\ ~dst.captured => r.fields = src.fields
       /\ FlushStep =>
              /\ \A w \in 2..workersCount : \A k \in DOMAIN shards[w].m :
                     /\ k \in DOMAIN shards'[w].m
                     /\ shards'[w].m[k] = shards[w].m[k]
              /\ (flushState' = "ok" /\ workersCount = 2) =>
                     \A k \in DOMAIN shards[1].m \cap DOMAIN shards[2].m :
                         \A i \in RowAnyFuncs :
                             LET dst == shards[1].m[k].sfps[i]
                                 src == shards[2].m[k].sfps[i]
                                 r == shards'[1].m[k].sfps[i]
                             IN  /\ r.captured = (dst.captured \/ src.captured)
                                 /\ r.fields = IF dst.captured THEN dst.fields
                                                ELSE src.fields]_vars

\* flush() merged the group of a key both shards hold: the row_any of
\* shards[0] kept its row, which is not the row the other shard captured
C32_Witness ==
    /\ flushState = "ok"
    /\ workersCount = 2
    /\ \E k \in DOMAIN shards[1].m \cap DOMAIN shards[2].m : \E i \in RowAnyFuncs :
           /\ shards[1].m[k].sfps[i].captured
           /\ shards[2].m[k].sfps[i].captured
           /\ shards[1].m[k].sfps[i].fields # shards[2].m[k].sfps[i].fields
    /\ \E dst, src \in RowAnyStates : ~dst.captured /\ src.captured

====
